---- MODULE Spec2Model ----
(***************************************************************************)
(* The replayed-portal API as a state machine: the Token, Folder and       *)
(* Mnemonic collections, Bearer-token verification (verifyAuth), the       *)
(* session-or-token resolver (hybridAuth) and the route handlers.  A       *)
(* handler that reads, awaits and then writes is two actions (its read     *)
(* phase and its write phase) so that requests interleave at the await.    *)
(***************************************************************************)
EXTENDS Integers, Sequences, FiniteSets, TLC

\* ------------------------------------------------------------------ bounds
MaxTime == 2
MaxTokens == 2
MaxFolders == 2
MaxMnemonics == 2
MaxInflight == 2

\* The 30-day expiry of a signed token, in ticks of the model's clock.
TokenTTL == 2

AllUsers == {"u1", "u2"}
NoSession == "none"
SessionThrows == "throws"
Sessions == AllUsers \cup {NoSession, SessionThrows}

VARIABLES
    strictQuery,  \* the ODM build: does a query filter drop paths the schema lacks
    users,        \* emails that have a User record
    tokens,       \* the Token collection
    folders,      \* the Folder collection
    mnemonics,    \* the Mnemonic collection
    now,          \* the clock
    issued,       \* raw tokens handed to clients so far
    nextId,       \* the next fresh _id of a folder and of a mnemonic
    reqs,         \* requests between their read phase and their write phase
    last          \* what the last step was and how it answered

vars == <<strictQuery, users, tokens, folders, mnemonics, now, issued, nextId, reqs, last>>

\* ------------------------------------------------------------------ values
\* A string is a sequence of characters; a JSON value carries its typeof.
Str(s) == [type |-> "string", val |-> s]
Undefined == [type |-> "undefined"]
Number1 == [type |-> "number", val |-> 1]
Arr(seq) == [type |-> "array", val |-> seq]
Obj(fields) == [type |-> "object", val |-> fields]

\* obj.f in JavaScript: undefined when obj is no object or has no such field.
Field(obj, f) ==
    IF obj.type = "object" /\ f \in DOMAIN obj.val THEN obj.val[f] ELSE Undefined

\* !v in JavaScript.
Falsy(v) ==
    \/ v.type \in {"undefined", "null"}
    \/ (v.type = "string" /\ v.val = <<>>)
    \/ (v.type = "number" /\ v.val = 0)

RECURSIVE TrimLeft(_)
TrimLeft(s) == IF s = <<>> THEN s
               ELSE IF Head(s) = " " THEN TrimLeft(Tail(s)) ELSE s

RECURSIVE TrimRight(_)
TrimRight(s) == IF s = <<>> THEN s
                ELSE IF s[Len(s)] = " " THEN TrimRight(SubSeq(s, 1, Len(s) - 1)) ELSE s

Trim(s) == TrimRight(TrimLeft(s))

\* !name || typeof name !== 'string' || name.trim().length === 0
NameMissing(name) ==
    \/ name.type = "undefined"
    \/ name.type /= "string"
    \/ name.val = <<>>
    \/ Len(Trim(name.val)) = 0

NameBodies == {Str(<<"a">>), Str(<<"b">>), Str(<<" ", "a">>), Str(<<" ">>),
               Str(<<>>), Undefined, Number1}

Unset == -1
NoDoc == [none |-> TRUE]
Null == [null |-> TRUE]
EmptyString == [str |-> <<>>]

\* ------------------------------------------------------------------ tokens.ts
JWT_SECRET == "secret"

generateToken(payload, tokenId, iat) ==
    [userId |-> payload.userId, email |-> payload.email, tokenId |-> tokenId,
     iat |-> iat, exp |-> iat + TokenTTL, sig |-> JWT_SECRET]

\* A token a client forges: the same payload, signed with another key.
Forge(token) == [token EXCEPT !.sig = "other"]

\* jwt.verify: the signature and the expiry; verifyToken throws when it fails.
verifyToken(token, t) == token.sig = JWT_SECRET /\ t < token.exp

hashToken(token) == [cipher |-> token]
decrypt(hashed) == hashed.cipher
verifyHashedToken(token, hashedToken) == decrypt(hashedToken) = token

\* An Authorization header is <<>> (absent) or <<scheme prefix, rest>>.
extractTokenFromHeader(authorization) ==
    IF authorization = <<>> \/ authorization[1] /= "Bearer "
    THEN Null
    ELSE authorization[2]

Headers ==
    {<<>>, <<"Basic ", EmptyString>>, <<"Bearer ", EmptyString>>} \cup
    {<<"Bearer ", t>> : t \in issued \cup {Forge(x) : x \in issued}}

\* ------------------------------------------------------------------ the ODM
\* Token.ts: the paths of TokenSchema (tokenId is not one of them).
TokenSchemaPaths == {"_id", "userId", "name", "hashedToken", "lastUsed", "createdAt"}

\* new Model(obj): strict mode keeps only the paths of the schema.
NewDoc(paths, obj) == [f \in (DOMAIN obj) \cap paths |-> obj[f]]

\* The paths of a filter that reach the database.
QueryPaths(filter, paths) ==
    IF strictQuery THEN (DOMAIN filter) \cap paths ELSE DOMAIN filter

Matches(doc, filter, paths) ==
    \A f \in QueryPaths(filter, paths) : f \in DOMAIN doc /\ doc[f] = filter[f]

Find(coll, filter, paths) == {d \in coll : Matches(d, filter, paths)}

\* findOne: what it may return (no sort: any matching document, or none).
FindOne(coll, filter, paths) ==
    IF Find(coll, filter, paths) = {} THEN {NoDoc} ELSE Find(coll, filter, paths)

\* ------------------------------------------------------------------ session.ts
AuthFail(status, error, toks) ==
    [success |-> FALSE, status |-> status, error |-> error, user |-> "none",
     tokenName |-> <<>>, tokenLastUsed |-> Unset, tokens |-> toks]

\* The documents Token.findOne({userId, tokenId}) may return for a header.
TokenDocChoices(header) ==
    LET token == extractTokenFromHeader(header)
    IN  IF token = Null \/ token = EmptyString \/ ~verifyToken(token, now)
        THEN {NoDoc}
        ELSE FindOne(tokens, [userId |-> token.userId, tokenId |-> token.tokenId],
                     TokenSchemaPaths)

\* verifyAuth trusting the signature alone (no lookup of the stored record).
verifyAuthNoLookup(header, dbUp, tokenDoc) ==
    LET token == extractTokenFromHeader(header)
    IN  IF token = Null \/ token = EmptyString
        THEN AuthFail(401, "Authorization header required", tokens)
        ELSE IF ~verifyToken(token, now)
        THEN AuthFail(401, "Invalid or expired token", tokens)
        ELSE IF ~dbUp
        THEN AuthFail(500, "Authentication failed", tokens)
        ELSE IF token.userId \notin users
        THEN AuthFail(404, "User not found", tokens)
        ELSE [success |-> TRUE, status |-> 200, error |-> "",
              user |-> token.userId, tokenName |-> <<>>,
              tokenLastUsed |-> now, tokens |-> tokens]

\* verifyAuth: dbUp is whether connectMongoDB() succeeds, tokenDoc what findOne returned.
verifyAuth(header, dbUp, tokenDoc) ==
    LET token == extractTokenFromHeader(header)
    IN  IF token = Null \/ token = EmptyString
        THEN AuthFail(401, "Authorization header required", tokens)
        ELSE IF ~verifyToken(token, now)
        THEN AuthFail(401, "Invalid or expired token", tokens)
        ELSE IF ~dbUp
        THEN AuthFail(500, "Authentication failed", tokens)
        ELSE IF tokenDoc = NoDoc
        THEN AuthFail(401, "Token has been revoked", tokens)
        ELSE IF ~verifyHashedToken(token, tokenDoc.hashedToken)
        THEN AuthFail(401, "Invalid token", tokens)
        ELSE LET saved == [tokenDoc EXCEPT !.lastUsed = now]
                 toks == (tokens \ {tokenDoc}) \cup {saved}
             IN  IF token.userId \notin users
                 THEN AuthFail(404, "User not found", toks)
                 ELSE [success |-> TRUE, status |-> 200, error |-> "",
                       user |-> token.userId, tokenName |-> saved.name,
                       tokenLastUsed |-> saved.lastUsed, tokens |-> toks]

\* ------------------------------------------------------------------ hybridAuth.ts
GenericAuthError == "Authentication required. Please login via web portal or provide a valid Bearer token."

\* hybridAuth trying the Bearer token before the session.
hybridAuthTokenFirst(sess, header, dbUp, tokenDoc) ==
    LET authResult == verifyAuth(header, dbUp, tokenDoc)
    IN  IF authResult.success
        THEN [success |-> TRUE, status |-> 200, error |-> "", cause |-> "",
              user |-> authResult.user, source |-> "token",
              tokens |-> authResult.tokens]
        ELSE IF sess \in AllUsers
        THEN [success |-> TRUE, status |-> 200, error |-> "", cause |-> "", user |-> sess,
              source |-> "session", tokens |-> authResult.tokens]
        ELSE [success |-> FALSE, status |-> 401, error |-> GenericAuthError,
              cause |-> authResult.error, user |-> "none", source |-> "none",
              tokens |-> authResult.tokens]

\* hybridAuth handing on the status and the message of verifyAuth.
hybridAuthPassThrough(sess, header, dbUp, tokenDoc) ==
    IF sess \in AllUsers
    THEN [success |-> TRUE, status |-> 200, error |-> "", cause |-> "", user |-> sess,
          source |-> "session", tokens |-> tokens]
    ELSE LET authResult == verifyAuth(header, dbUp, tokenDoc)
         IN  IF authResult.success
             THEN [success |-> TRUE, status |-> 200, error |-> "", cause |-> "",
                   user |-> authResult.user, source |-> "token",
                   tokens |-> authResult.tokens]
             ELSE [success |-> FALSE, status |-> authResult.status,
                   error |-> authResult.error,
                   cause |-> authResult.error, user |-> "none", source |-> "none",
                   tokens |-> authResult.tokens]

hybridAuth(sess, header, dbUp, tokenDoc) ==
    IF sess \in AllUsers
    THEN [success |-> TRUE, status |-> 200, error |-> "", cause |-> "", user |-> sess,
          source |-> "session", tokens |-> tokens]
    ELSE LET authResult == verifyAuth(header, dbUp, tokenDoc)
         IN  IF authResult.success
             THEN [success |-> TRUE, status |-> 200, error |-> "", cause |-> "",
                   user |-> authResult.user, source |-> "token",
                   tokens |-> authResult.tokens]
             ELSE [success |-> FALSE, status |-> 401, error |-> GenericAuthError,
                   cause |-> authResult.error, user |-> "none", source |-> "none",
                   tokens |-> authResult.tokens]

\* ------------------------------------------------------------------ responses
Step(op) ==
    [op |-> op, status |-> 0, error |-> "", cause |-> "", sess |-> NoSession,
     user |-> "none", source |-> "none", tokenName |-> <<>>,
     tokenLastUsed |-> Unset, token |-> Null, id |-> 0, fresh |-> FALSE,
     raced |-> FALSE, name |-> <<>>, data |-> {}, deletedMnemonics |-> 0]

Init ==
    /\ strictQuery \in BOOLEAN
    /\ users = AllUsers
    /\ tokens = {}
    /\ folders = {}
    /\ mnemonics = {}
    /\ now = 0
    /\ issued = {}
    /\ nextId = [folder |-> 1, mnemonic |-> 1]
    /\ reqs = {}
    /\ last = Step("init")

\* ------------------------------------------------------------------ environment
Tick ==
    /\ now < MaxTime
    /\ now' = now + 1
    /\ last' = Step("tick")
    /\ UNCHANGED <<strictQuery, nextId, users, tokens, folders, mnemonics, issued, reqs>>

\* The sign-in collaborator's User record goes away (account removed).
UserRemoved(u) ==
    /\ u \in users
    /\ users' = users \ {u}
    /\ last' = Step("userRemoved")
    /\ UNCHANGED <<strictQuery, nextId, tokens, folders, mnemonics, now, issued, reqs>>

\* ------------------------------------------------------------------ GET /api/me
GetMe(header, dbUp) ==
    \E tokenDoc \in TokenDocChoices(header) :
        LET authResult == verifyAuth(header, dbUp, tokenDoc)
        IN  /\ tokens' = authResult.tokens
            /\ last' = [Step("GET /api/me") EXCEPT
                          !.status = authResult.status,
                          !.error = authResult.error,
                          !.cause = authResult.error,
                          !.token = extractTokenFromHeader(header),
                          !.user = authResult.user,
                          !.source = IF authResult.success THEN "token" ELSE "none",
                          !.tokenName = authResult.tokenName,
                          !.tokenLastUsed = authResult.tokenLastUsed,
                          !.data = IF authResult.success
                                   THEN {[id |-> authResult.user, email |-> authResult.user,
                                          tokenName |-> authResult.tokenName,
                                          tokenLastUsed |-> authResult.tokenLastUsed]}
                                   ELSE {},
                          !.fresh = /\ last.op = "POST /api/tokens"
                                    /\ last.status = 201
                                    /\ header = <<"Bearer ", last.token>>
                                    /\ dbUp]
            /\ UNCHANGED <<strictQuery, nextId, users, folders, mnemonics, now, issued, reqs>>

\* ------------------------------------------------------------------ requests in flight
FreeRids == (1..MaxInflight) \ {r.rid : r \in reqs}
NewRid == CHOOSE i \in FreeRids : \A j \in FreeRids : i <= j

\* requireAuth(): the session's email, "Unauthorized" thrown without one; auth() may throw.
requireAuthStatus(sess) ==
    IF sess \in AllUsers THEN 200 ELSE IF sess = NoSession THEN 401 ELSE 500

Pending(op, user, source, id, name) ==
    [rid |-> NewRid, op |-> op, user |-> user, source |-> source, id |-> id, name |-> name,
     folderId |-> 0, commands |-> <<>>, lastUsed |-> Unset]

TokenIds == 1..(MaxTokens + 1)

\* ------------------------------------------------------------------ POST /api/tokens
\* A pre-check on the name as sent, untrimmed.
ExistingTokenUntrimmed(user, name) == [userId |-> user, name |-> name.val]

\* The filter of the name pre-check (tokens/route.ts 42-46).
ExistingTokenFilter(user, name) == [userId |-> user, name |-> Trim(name.val)]

\* Up to the await of the name pre-check (route.ts 28-53).
PostTokenRead(sess, name) ==
    /\ UNCHANGED <<strictQuery, nextId, users, tokens, folders, mnemonics, now, issued>>
    /\ IF requireAuthStatus(sess) /= 200
       THEN /\ last' = [Step("POST /api/tokens") EXCEPT
                          !.status = requireAuthStatus(sess),
                          !.error = "Failed to create token", !.sess = sess]
            /\ UNCHANGED reqs
       ELSE IF NameMissing(name)
       THEN /\ last' = [Step("POST /api/tokens") EXCEPT
                          !.status = 400, !.error = "Token name is required",
                          !.sess = sess, !.user = sess]
            /\ UNCHANGED reqs
       ELSE \E existingToken \in FindOne(tokens, ExistingTokenFilter(sess, name),
                                        TokenSchemaPaths) :
              IF existingToken /= NoDoc
              THEN /\ last' = [Step("POST /api/tokens") EXCEPT
                                 !.status = 409, !.error = "Token name already exists",
                                 !.sess = sess, !.user = sess]
                   /\ UNCHANGED reqs
              ELSE /\ FreeRids /= {}
                   /\ Cardinality(issued)
                        + Cardinality({r \in reqs : r.op = "POST /api/tokens"}) < MaxTokens
                   /\ reqs' = reqs \cup {Pending("POST /api/tokens", sess, "session", 0,
                                                 Trim(name.val))}
                   /\ last' = [Step("pending") EXCEPT !.sess = sess, !.user = sess]

\* From generateToken to the response (route.ts 55-87).
PostTokenSave(r) ==
    /\ r \in reqs /\ r.op = "POST /api/tokens"
    /\ LET n == Cardinality(issued) + 1
           token == generateToken([userId |-> r.user, email |-> r.user], <<"tid", n>>, now)
           tokenDoc == NewDoc(TokenSchemaPaths,
                              [_id |-> n, userId |-> r.user, name |-> r.name,
                               tokenId |-> token.tokenId, hashedToken |-> hashToken(token),
                               lastUsed |-> Unset, createdAt |-> now])
       IN  /\ tokens' = tokens \cup {tokenDoc}
           /\ issued' = issued \cup {token}
           /\ last' = [Step("POST /api/tokens") EXCEPT
                         !.status = 201, !.sess = r.user, !.user = r.user,
                         !.id = n, !.tokenName = r.name, !.token = token,
                         !.data = {[id |-> n, name |-> r.name, token |-> token,
                                    createdAt |-> now]}]
    /\ reqs' = reqs \ {r}
    /\ UNCHANGED <<strictQuery, nextId, users, folders, mnemonics, now>>

\* ------------------------------------------------------------------ DELETE /api/tokens/{id}
\* A lookup by _id alone, whoever owns the token.
TokenByIdOnly(user, id) == [_id |-> id]

\* The filter of Token.findOne in DELETE (part_010 16-19).
OwnTokenFilter(user, id) == [_id |-> id, userId |-> user]

DeleteToken(sess, id) ==
    /\ UNCHANGED <<strictQuery, nextId, users, folders, mnemonics, now, issued, reqs>>
    /\ IF requireAuthStatus(sess) /= 200
       THEN /\ last' = [Step("DELETE /api/tokens/{id}") EXCEPT
                          !.status = requireAuthStatus(sess),
                          !.error = "Failed to revoke token", !.sess = sess, !.id = id]
            /\ UNCHANGED tokens
       ELSE \E token \in FindOne(tokens, OwnTokenFilter(sess, id), TokenSchemaPaths) :
              IF token = NoDoc
              THEN /\ last' = [Step("DELETE /api/tokens/{id}") EXCEPT
                                 !.status = 404, !.error = "Token not found",
                                 !.sess = sess, !.user = sess, !.id = id]
                   /\ UNCHANGED tokens
              ELSE /\ tokens' = {d \in tokens : d._id /= id}
                   /\ last' = [Step("DELETE /api/tokens/{id}") EXCEPT
                                 !.status = 200, !.sess = sess, !.user = sess, !.id = id]

\* ------------------------------------------------------------------ PUT /api/tokens/{id}
\* Up to the await of the name pre-check (part_010 43-84).
PutTokenRead(sess, id, name) ==
    /\ UNCHANGED <<strictQuery, nextId, users, tokens, folders, mnemonics, now, issued>>
    /\ IF requireAuthStatus(sess) /= 200
       THEN /\ last' = [Step("PUT /api/tokens/{id}") EXCEPT
                          !.status = requireAuthStatus(sess),
                          !.error = "Failed to update token", !.sess = sess, !.id = id]
            /\ UNCHANGED reqs
       ELSE IF NameMissing(name)
       THEN /\ last' = [Step("PUT /api/tokens/{id}") EXCEPT
                          !.status = 400, !.error = "Token name is required",
                          !.sess = sess, !.user = sess, !.id = id]
            /\ UNCHANGED reqs
       ELSE \E token \in FindOne(tokens, [_id |-> id, userId |-> sess], TokenSchemaPaths) :
              IF token = NoDoc
              THEN /\ last' = [Step("PUT /api/tokens/{id}") EXCEPT
                                 !.status = 404, !.error = "Token not found",
                                 !.sess = sess, !.user = sess, !.id = id]
                   /\ UNCHANGED reqs
              ELSE \E existingToken \in
                        FindOne({d \in tokens : d._id /= id},
                                [userId |-> sess, name |-> Trim(name.val)], TokenSchemaPaths) :
                     IF existingToken /= NoDoc
                     THEN /\ last' = [Step("PUT /api/tokens/{id}") EXCEPT
                                        !.status = 409, !.error = "Token name already exists",
                                        !.sess = sess, !.user = sess, !.id = id]
                          /\ UNCHANGED reqs
                     ELSE /\ FreeRids /= {}
                          /\ reqs' = reqs \cup {Pending("PUT /api/tokens/{id}", sess, "session",
                                                        id, Trim(name.val))}
                          /\ last' = [Step("pending") EXCEPT !.sess = sess, !.user = sess]

\* token.name = ...; token.save() and the response (part_010 86-104): save() updates
\* the stored document by _id and throws when it is gone.
PutTokenSave(r) ==
    /\ r \in reqs /\ r.op = "PUT /api/tokens/{id}"
    /\ reqs' = reqs \ {r}
    /\ UNCHANGED <<strictQuery, nextId, users, folders, mnemonics, now, issued>>
    /\ IF \E d \in tokens : d._id = r.id
       THEN /\ tokens' = {IF d._id = r.id THEN [d EXCEPT !.name = r.name] ELSE d : d \in tokens}
            /\ last' = [Step("PUT /api/tokens/{id}") EXCEPT
                          !.status = 200, !.sess = r.user, !.user = r.user,
                          !.id = r.id, !.tokenName = r.name,
                          !.data = {[id |-> d._id, name |-> r.name, createdAt |-> d.createdAt]
                                      : d \in {x \in tokens : x._id = r.id}}]
       ELSE /\ UNCHANGED tokens
            /\ last' = [Step("PUT /api/tokens/{id}") EXCEPT
                          !.status = 500, !.error = "Failed to update token",
                          !.sess = r.user, !.user = r.user, !.id = r.id]

\* ------------------------------------------------------------------ GET /api/folders
GetFolders(sess, header, dbUp) ==
    \E tokenDoc \in TokenDocChoices(header) :
        LET authResult == hybridAuth(sess, header, dbUp, tokenDoc)
            resp == [Step("GET /api/folders") EXCEPT
                       !.sess = sess, !.token = extractTokenFromHeader(header),
                       !.cause = authResult.cause,
                       !.user = authResult.user, !.source = authResult.source]
        IN  /\ tokens' = authResult.tokens
            /\ last' = IF ~authResult.success
                       THEN [resp EXCEPT !.status = authResult.status,
                                         !.error = authResult.error]
                       ELSE IF ~dbUp
                       THEN [resp EXCEPT !.status = 500, !.error = "Failed to fetch folders"]
                       ELSE [resp EXCEPT !.status = 200,
                                         !.data = Find(folders, [userId |-> authResult.user],
                                                       {"_id", "userId", "name"})]
            /\ UNCHANGED <<strictQuery, nextId, users, folders, mnemonics, now, issued, reqs>>

\* ------------------------------------------------------------------ Folder.ts, Mnemonic.ts
FolderSchemaPaths == {"_id", "userId", "name"}
\* MnemonicSchema has timestamps: true.
MnemonicSchemaPaths ==
    {"_id", "userId", "folderId", "name", "commands", "createdAt", "updatedAt"}

\* A collection whose unique index on {userId, name} is dropped.
NoUniqueIndex(coll) == TRUE

\* FolderSchema.index({userId: 1, name: 1}, {unique: true}): may the collection look so.
FolderIndexAllows(coll) ==
    \A d1, d2 \in coll : (d1.userId = d2.userId /\ d1.name = d2.name) => d1 = d2

\* MnemonicSchema.index({userId: 1, name: 1}, {unique: true}).
MnemonicIndexAllows(coll) ==
    \A d1, d2 \in coll : (d1.userId = d2.userId /\ d1.name = d2.name) => d1 = d2

\* ------------------------------------------------------------------ validation.ts
LowerCase == {"a", "b", "c", "d", "e", "f", "g", "h", "i", "j", "k", "l", "m",
              "n", "o", "p", "q", "r", "s", "t", "u", "v", "w", "x", "y", "z"}
Digits == {"0", "1", "2", "3", "4", "5", "6", "7", "8", "9"}
MaxNameTail == 49

\* /^[a-z][a-z0-9-_]*$/: the same pattern without the length limit.
MNEMONIC_NAME_REGEX_NoLimit(s) ==
    /\ Len(s) >= 1
    /\ s[1] \in LowerCase
    /\ \A i \in 2..Len(s) : s[i] \in LowerCase \cup Digits \cup {"-", "_"}

\* /^[a-z][a-z0-9-_]{0,49}$/ on a string of single characters.
MNEMONIC_NAME_REGEX(s) ==
    /\ Len(s) >= 1
    /\ s[1] \in LowerCase
    /\ Len(s) - 1 <= MaxNameTail
    /\ \A i \in 2..Len(s) : s[i] \in LowerCase \cup Digits \cup {"-", "_"}

validateMnemonicName(name) ==
    /\ ~Falsy(name)
    /\ name.type = "string"
    /\ Len(Trim(name.val)) /= 0
    /\ MNEMONIC_NAME_REGEX(Trim(name.val))

\* The error validateMnemonicName reports ("" when the name is valid).
validateMnemonicNameError(name) ==
    IF Falsy(name) \/ name.type /= "string" THEN "Mnemonic name is required"
    ELSE IF Len(Trim(name.val)) = 0 THEN "Mnemonic name cannot be empty"
    ELSE IF ~MNEMONIC_NAME_REGEX(Trim(name.val))
    THEN "Mnemonic name must start with a lowercase letter"
    ELSE ""

\* ------------------------------------------------------------------ types/mnemonic.ts
KeyNames == {<<"up">>, <<"down">>, <<"left">>, <<"right">>, <<"space">>, <<"tab">>,
             <<"backspace">>}

isTextStepNonEmpty(step) ==
    /\ Field(step, "type") = Str(<<"text">>)
    /\ Field(step, "value").type = "string"
    /\ Field(step, "value").val # <<>>

isTextStep(step) ==
    Field(step, "type") = Str(<<"text">>) /\ Field(step, "value").type = "string"

isEnterStep(step) == Field(step, "type") = Str(<<"enter">>)

isKeyStep(step) ==
    /\ Field(step, "type") = Str(<<"key">>)
    /\ Field(step, "key").type = "string"
    /\ Field(step, "key").val \in KeyNames

isValidInputStep(step) == isTextStep(step) \/ isEnterStep(step) \/ isKeyStep(step)

\* ------------------------------------------------------------------ mnemonics/route.ts
validateMnemonicCommands(commands) ==
    /\ commands.type = "array"
    /\ \A i \in 1..Len(commands.val) :
          LET cmd == commands.val[i]
          IN  /\ cmd.type \in {"object", "array"}
              /\ Field(cmd, "command").type = "string"
              /\ Len(Trim(Field(cmd, "command").val)) /= 0
              /\ \/ Field(cmd, "inputs").type = "undefined"
                 \/ /\ Field(cmd, "inputs").type = "array"
                    /\ \A j \in 1..Len(Field(cmd, "inputs").val) :
                          isValidInputStep(Field(cmd, "inputs").val[j])

RECURSIVE FilterNonBlank(_)
FilterNonBlank(cmds) ==
    IF cmds = <<>> THEN <<>>
    ELSE IF Len(Trim(Field(Head(cmds), "command").val)) > 0
         THEN <<Head(cmds)>> \o FilterNonBlank(Tail(cmds))
         ELSE FilterNonBlank(Tail(cmds))

\* commands.filter(...).map(cmd => ({command: cmd.command.trim(), inputs: cmd.inputs || []}))
cleanCommands(commands) ==
    LET kept == FilterNonBlank(commands.val)
    IN  [i \in 1..Len(kept) |->
            [command |-> Trim(Field(kept[i], "command").val),
             inputs |-> IF Falsy(Field(kept[i], "inputs")) THEN <<>>
                        ELSE Field(kept[i], "inputs").val]]

\* InputStepSchema: the value a text step needs, the key a key step needs (a required
\* string is not empty; a key, when given, is one of the enum).
StepSchemaValid(step) ==
    LET type == Field(step, "type")
        value == Field(step, "value")
        key == Field(step, "key")
    IN  /\ type \in {Str(<<"text">>), Str(<<"enter">>), Str(<<"key">>)}
        /\ type = Str(<<"text">>) =>
              /\ value.type = "string" /\ value.val /= <<>>
              /\ key.type = "undefined" \/ (key.type = "string" /\ key.val \in KeyNames)
        /\ type = Str(<<"key">>) => (key.type = "string" /\ key.val \in KeyNames)

\* What InputStepSchema stores of a step: its paths, an enter step without payload.
CastStep(step) ==
    IF Field(step, "type") = Str(<<"enter">>)
    THEN Obj([type |-> Str(<<"enter">>)])
    ELSE Obj([f \in (DOMAIN step.val) \cap {"type", "value", "key"} |-> step.val[f]])

CastCommands(cmds) ==
    [i \in 1..Len(cmds) |->
        [command |-> cmds[i].command,
         inputs |-> [j \in 1..Len(cmds[i].inputs) |-> CastStep(cmds[i].inputs[j])]]]

\* MnemonicSchema validation at save(): the name, at least one command, every step.
MnemonicSchemaValid(name, cmds) ==
    /\ validateMnemonicName(Str(name))
    /\ Len(cmds) > 0
    /\ \A i \in 1..Len(cmds) :
          /\ cmds[i].command /= <<>>
          /\ \A j \in 1..Len(cmds[i].inputs) : StepSchemaValid(cmds[i].inputs[j])

\* ------------------------------------------------------------------ hybrid requests
\* What a handler knows after hybridAuth(request).
HybridResp(op, sess, header, authResult) ==
    [Step(op) EXCEPT !.sess = sess, !.token = extractTokenFromHeader(header),
                     !.cause = authResult.cause, !.user = authResult.user,
                     !.source = authResult.source]

Answer(resp, status, error) == [resp EXCEPT !.status = status, !.error = error]

\* The catch block of a write: a duplicate key (code 11000) is the name conflict.
DuplicateKey == 11000

CreateErrorAlways500(code) == 500

\* folders/route.ts 82-97 and mnemonics/route.ts 368-383.
CreateErrorStatus(code) == IF code = DuplicateKey THEN 409 ELSE 500

\* part_013 66-80 and mnemonics/[id]/route.ts 201-216.
UpdateErrorStatus(code) == IF code = DuplicateKey THEN 409 ELSE 500

FolderIds == 1..(MaxFolders + 1)
MnemonicIds == 1..(MaxMnemonics + 1)

\* ------------------------------------------------------------------ POST /api/folders
\* A pre-check by name alone, whoever owns the folder.
ExistingFolderAnyOwner(user, name) == [name |-> Trim(name.val)]

\* The filter of the name pre-check (folders/route.ts 57-60).
ExistingFolderFilter(user, name) == [userId |-> user, name |-> Trim(name.val)]

\* Up to the await of the name pre-check (folders/route.ts 37-68).
PostFolderRead(sess, header, dbUp, name) ==
    \E tokenDoc \in TokenDocChoices(header) :
        LET authResult == hybridAuth(sess, header, dbUp, tokenDoc)
            resp == HybridResp("POST /api/folders", sess, header, authResult)
        IN  /\ tokens' = authResult.tokens
            /\ UNCHANGED <<strictQuery, nextId, users, folders, mnemonics, now, issued>>
            /\ IF ~authResult.success
               THEN last' = Answer(resp, authResult.status, authResult.error) /\ UNCHANGED reqs
               ELSE IF NameMissing(name)
               THEN last' = Answer(resp, 400, "Folder name is required") /\ UNCHANGED reqs
               ELSE IF ~dbUp
               THEN last' = Answer(resp, 500, "Failed to create folder") /\ UNCHANGED reqs
               ELSE \E existingFolder \in
                        FindOne(folders, ExistingFolderFilter(authResult.user, name),
                                FolderSchemaPaths) :
                      IF existingFolder /= NoDoc
                      THEN last' = Answer(resp, 409, "Folder name already exists")
                           /\ UNCHANGED reqs
                      ELSE /\ FreeRids /= {}
                           /\ nextId.folder
                                + Cardinality({r \in reqs : r.op = "POST /api/folders"})
                                <= MaxFolders
                           /\ reqs' = reqs \cup {Pending("POST /api/folders", authResult.user,
                                                         authResult.source, 0, Trim(name.val))}
                           /\ last' = [resp EXCEPT !.op = "pending"]

\* new Folder(...).save() and the response (folders/route.ts 70-97).
PostFolderSave(r) ==
    /\ r \in reqs /\ r.op = "POST /api/folders"
    /\ reqs' = reqs \ {r}
    /\ UNCHANGED <<strictQuery, users, tokens, mnemonics, now, issued>>
    /\ LET folder == NewDoc(FolderSchemaPaths,
                            [_id |-> nextId.folder, userId |-> r.user, name |-> r.name])
           resp == [Step("POST /api/folders") EXCEPT !.user = r.user, !.source = r.source]
       IN  IF FolderIndexAllows(folders \cup {folder})
           THEN /\ folders' = folders \cup {folder}
                /\ nextId' = [nextId EXCEPT !.folder = @ + 1]
                /\ last' = [Answer(resp, 201, "") EXCEPT !.id = folder._id]
           ELSE /\ UNCHANGED <<folders, nextId>>
                /\ last' = [Answer(resp, CreateErrorStatus(DuplicateKey),
                                   IF CreateErrorStatus(DuplicateKey) = 409
                                   THEN "Folder name already exists"
                                   ELSE "Failed to create folder")
                            EXCEPT !.raced = TRUE, !.name = r.name]

\* ------------------------------------------------------------------ PUT /api/folders/{id}
\* Up to the await of the name pre-check (part_013 9-56).
PutFolderRead(sess, header, dbUp, id, name) ==
    \E tokenDoc \in TokenDocChoices(header) :
        LET authResult == hybridAuth(sess, header, dbUp, tokenDoc)
            resp == [HybridResp("PUT /api/folders/{id}", sess, header, authResult)
                       EXCEPT !.id = id]
        IN  /\ tokens' = authResult.tokens
            /\ UNCHANGED <<strictQuery, nextId, users, folders, mnemonics, now, issued>>
            /\ IF ~authResult.success
               THEN last' = Answer(resp, authResult.status, authResult.error) /\ UNCHANGED reqs
               ELSE IF NameMissing(name)
               THEN last' = Answer(resp, 400, "Folder name is required") /\ UNCHANGED reqs
               ELSE IF ~dbUp
               THEN last' = Answer(resp, 500, "Failed to update folder") /\ UNCHANGED reqs
               ELSE \E folder \in FindOne(folders, [_id |-> id, userId |-> authResult.user],
                                          FolderSchemaPaths) :
                      IF folder = NoDoc
                      THEN last' = Answer(resp, 404, "Folder not found") /\ UNCHANGED reqs
                      ELSE \E existingFolder \in
                               FindOne({d \in folders : d._id /= id},
                                       [userId |-> authResult.user, name |-> Trim(name.val)],
                                       FolderSchemaPaths) :
                             IF existingFolder /= NoDoc
                             THEN last' = Answer(resp, 409, "Folder name already exists")
                                  /\ UNCHANGED reqs
                             ELSE /\ FreeRids /= {}
                                  /\ reqs' = reqs \cup
                                       {Pending("PUT /api/folders/{id}", authResult.user,
                                                authResult.source, id, Trim(name.val))}
                                  /\ last' = [resp EXCEPT !.op = "pending"]

\* folder.name = ...; folder.save() and the response (part_013 58-80): save() updates
\* the stored document by _id, under the unique index, and throws when it is gone.
PutFolderSave(r) ==
    /\ r \in reqs /\ r.op = "PUT /api/folders/{id}"
    /\ reqs' = reqs \ {r}
    /\ UNCHANGED <<strictQuery, nextId, users, tokens, mnemonics, now, issued>>
    /\ LET updated == {IF d._id = r.id THEN [d EXCEPT !.name = r.name] ELSE d : d \in folders}
           resp == [Step("PUT /api/folders/{id}") EXCEPT
                      !.user = r.user, !.source = r.source, !.id = r.id]
       IN  IF ~\E d \in folders : d._id = r.id
           THEN /\ UNCHANGED folders
                /\ last' = Answer(resp, 500, "Failed to update folder")
           ELSE IF FolderIndexAllows(updated)
           THEN /\ folders' = updated
                /\ last' = Answer(resp, 200, "")
           ELSE /\ UNCHANGED folders
                /\ last' = [Answer(resp, UpdateErrorStatus(DuplicateKey),
                                   "Folder name already exists")
                            EXCEPT !.raced = TRUE, !.name = r.name]

CommandsError == "Commands must be an array with valid command strings and InputStep arrays"

\* ------------------------------------------------------------------ POST /api/mnemonics
\* A handler that lets every caller omit the folder.
FolderNeverRequired(source) == FALSE

\* Who must name a folder (mnemonics/route.ts 297-305).
FolderRequired(source) == source = "session"

\* Up to the await of the name pre-check (mnemonics/route.ts 242-320).
PostMnemonicRead(sess, header, dbUp, folderId, name, commands) ==
    \E tokenDoc \in TokenDocChoices(header) :
        LET authResult == hybridAuth(sess, header, dbUp, tokenDoc)
            resp == HybridResp("POST /api/mnemonics", sess, header, authResult)
        IN  /\ tokens' = authResult.tokens
            /\ UNCHANGED <<strictQuery, nextId, users, folders, mnemonics, now, issued>>
            /\ IF ~authResult.success
               THEN last' = Answer(resp, authResult.status, authResult.error) /\ UNCHANGED reqs
               ELSE IF Falsy(name) \/ Falsy(commands)
               THEN last' = Answer(resp, 400, "Name and commands are required")
                    /\ UNCHANGED reqs
               ELSE IF ~validateMnemonicName(name)
               THEN last' = Answer(resp, 400, validateMnemonicNameError(name))
                    /\ UNCHANGED reqs
               ELSE IF ~validateMnemonicCommands(commands)
               THEN last' = Answer(resp, 400, CommandsError) /\ UNCHANGED reqs
               ELSE IF ~dbUp
               THEN last' = Answer(resp, 500, "Failed to create mnemonic") /\ UNCHANGED reqs
               ELSE IF folderId /= 0
                       /\ FindOne(folders, [_id |-> folderId, userId |-> authResult.user],
                                  FolderSchemaPaths) = {NoDoc}
               THEN last' = Answer(resp, 404, "Folder not found") /\ UNCHANGED reqs
               ELSE IF folderId = 0 /\ FolderRequired(authResult.source)
               THEN last' = Answer(resp, 400, "Folder ID is required for web portal")
                    /\ UNCHANGED reqs
               ELSE \E existingMnemonic \in
                        FindOne(mnemonics, [userId |-> authResult.user, name |-> Trim(name.val)],
                                MnemonicSchemaPaths) :
                      IF existingMnemonic /= NoDoc
                      THEN last' = Answer(resp, 409, "Mnemonic name already exists")
                           /\ UNCHANGED reqs
                      ELSE /\ FreeRids /= {}
                           /\ nextId.mnemonic
                                + Cardinality({r \in reqs : r.op = "POST /api/mnemonics"})
                                <= MaxMnemonics
                           /\ reqs' = reqs \cup
                                {[Pending("POST /api/mnemonics", authResult.user,
                                          authResult.source, 0, Trim(name.val))
                                    EXCEPT !.folderId = folderId,
                                           !.commands = cleanCommands(commands)]}
                           /\ last' = [resp EXCEPT !.op = "pending"]

\* new Mnemonic(...).save() and the response (mnemonics/route.ts 322-384).
PostMnemonicSave(r) ==
    /\ r \in reqs /\ r.op = "POST /api/mnemonics"
    /\ reqs' = reqs \ {r}
    /\ UNCHANGED <<strictQuery, users, tokens, folders, now, issued>>
    /\ LET mnemonic == NewDoc(MnemonicSchemaPaths,
                              [_id |-> nextId.mnemonic, userId |-> r.user,
                               folderId |-> r.folderId, name |-> r.name,
                               commands |-> CastCommands(r.commands),
                               createdAt |-> now, updatedAt |-> now])
           resp == [Step("POST /api/mnemonics") EXCEPT !.user = r.user, !.source = r.source]
       IN  IF ~MnemonicSchemaValid(r.name, r.commands)
           THEN /\ UNCHANGED <<mnemonics, nextId>>
                /\ last' = Answer(resp, 400, "Validation failed")
           ELSE IF MnemonicIndexAllows(mnemonics \cup {mnemonic})
           THEN /\ mnemonics' = mnemonics \cup {mnemonic}
                /\ nextId' = [nextId EXCEPT !.mnemonic = @ + 1]
                /\ last' = [Answer(resp, 201, "") EXCEPT !.id = mnemonic._id]
           ELSE /\ UNCHANGED <<mnemonics, nextId>>
                /\ last' = [Answer(resp, CreateErrorStatus(DuplicateKey),
                                   IF CreateErrorStatus(DuplicateKey) = 409
                                   THEN "Mnemonic name already exists"
                                   ELSE "Failed to create mnemonic")
                            EXCEPT !.raced = TRUE, !.name = r.name]

\* ------------------------------------------------------------------ PUT /api/mnemonics/{id}
\* A handler that takes every caller for the owner.
AnyoneIsOwner(mnemonic, user) == TRUE

\* mnemonic.userId === authResult.user.email (mnemonics/[id]/route.ts 103, 247).
IsOwner(mnemonic, user) == mnemonic.userId = user

\* Up to the await of the name pre-check (mnemonics/[id]/route.ts 48-138).
PutMnemonicRead(sess, header, dbUp, id, name, commands) ==
    \E tokenDoc \in TokenDocChoices(header) :
        LET authResult == hybridAuth(sess, header, dbUp, tokenDoc)
            resp == [HybridResp("PUT /api/mnemonics/{id}", sess, header, authResult)
                       EXCEPT !.id = id]
        IN  /\ tokens' = authResult.tokens
            /\ UNCHANGED <<strictQuery, nextId, users, folders, mnemonics, now, issued>>
            /\ IF ~authResult.success
               THEN last' = Answer(resp, authResult.status, authResult.error) /\ UNCHANGED reqs
               ELSE IF Falsy(name) \/ Falsy(commands)
               THEN last' = Answer(resp, 400, "Name and commands are required")
                    /\ UNCHANGED reqs
               ELSE IF ~validateMnemonicName(name)
               THEN last' = Answer(resp, 400, validateMnemonicNameError(name))
                    /\ UNCHANGED reqs
               ELSE IF ~validateMnemonicCommands(commands)
               THEN last' = Answer(resp, 400, CommandsError) /\ UNCHANGED reqs
               ELSE IF ~dbUp
               THEN last' = Answer(resp, 500, "Failed to update mnemonic") /\ UNCHANGED reqs
               ELSE \E mnemonic \in FindOne(mnemonics, [_id |-> id], MnemonicSchemaPaths) :
                      IF mnemonic = NoDoc
                      THEN last' = Answer(resp, 404, "Mnemonic not found") /\ UNCHANGED reqs
                      ELSE IF ~IsOwner(mnemonic, authResult.user)
                      THEN last' = Answer(resp, 403, "Unauthorized") /\ UNCHANGED reqs
                      ELSE IF /\ authResult.source = "session"
                              /\ mnemonic.folderId /= 0
                              /\ FindOne(folders, [_id |-> mnemonic.folderId,
                                                   userId |-> authResult.user],
                                         FolderSchemaPaths) = {NoDoc}
                      THEN last' = Answer(resp, 403, "Unauthorized") /\ UNCHANGED reqs
                      ELSE IF /\ Trim(name.val) /= mnemonic.name
                              /\ Find({d \in mnemonics : d._id /= id},
                                      [userId |-> authResult.user, name |-> Trim(name.val)],
                                      MnemonicSchemaPaths) /= {}
                      THEN last' = Answer(resp, 409, "Mnemonic name already exists")
                           /\ UNCHANGED reqs
                      ELSE /\ FreeRids /= {}
                           /\ reqs' = reqs \cup
                                {[Pending("PUT /api/mnemonics/{id}", authResult.user,
                                          authResult.source, id, Trim(name.val))
                                    EXCEPT !.commands = cleanCommands(commands)]}
                           /\ last' = [resp EXCEPT !.op = "pending"]

\* An update that replaces the document and so loses its folder.
MnemonicReplace(d, r) ==
    [d EXCEPT !.name = r.name, !.commands = r.commands, !.updatedAt = now, !.folderId = 0]

\* $set: {name: name.trim(), commands: cleanCommands, updatedAt: new Date()}
MnemonicUpdate(d, r) ==
    [d EXCEPT !.name = r.name, !.commands = r.commands, !.updatedAt = now]

\* const { name, commands } = await request.json(): the rest of the body is dropped.
PutMnemonicBody(sess, header, dbUp, id, body) ==
    PutMnemonicRead(sess, header, dbUp, id, Field(body, "name"), Field(body, "commands"))

\* db.collection("mnemonics").updateOne(...) and the response
\* (mnemonics/[id]/route.ts 140-217): the driver writes past the schema, under the index.
PutMnemonicSave(r) ==
    /\ r \in reqs /\ r.op = "PUT /api/mnemonics/{id}"
    /\ reqs' = reqs \ {r}
    /\ UNCHANGED <<strictQuery, nextId, users, tokens, folders, now, issued>>
    /\ LET updated == {IF d._id = r.id THEN MnemonicUpdate(d, r) ELSE d : d \in mnemonics}
           resp == [Step("PUT /api/mnemonics/{id}") EXCEPT
                      !.user = r.user, !.source = r.source, !.id = r.id]
       IN  IF ~\E d \in mnemonics : d._id = r.id
           THEN /\ UNCHANGED mnemonics
                /\ last' = Answer(resp, 404, "Mnemonic not found")
           ELSE IF MnemonicIndexAllows(updated)
           THEN /\ mnemonics' = updated
                /\ last' = Answer(resp, 200, "")
           ELSE /\ UNCHANGED mnemonics
                /\ last' = [Answer(resp, UpdateErrorStatus(DuplicateKey),
                                   "Mnemonic name already exists")
                            EXCEPT !.raced = TRUE, !.name = r.name]

\* ------------------------------------------------------------------ DELETE /api/folders/{id}
\* A deleteMany with an empty filter.
EveryMnemonicFilter(id) == [f \in {} |-> id]

\* The filter of Mnemonic.deleteMany (part_013 111).
FolderMnemonicsFilter(id) == [folderId |-> id]

\* part_013 84-129: the folder of the caller, its mnemonics by folderId, then the folder.
DeleteFolder(sess, header, dbUp, id) ==
    \E tokenDoc \in TokenDocChoices(header) :
        LET authResult == hybridAuth(sess, header, dbUp, tokenDoc)
            resp == [HybridResp("DELETE /api/folders/{id}", sess, header, authResult)
                       EXCEPT !.id = id]
        IN  /\ tokens' = authResult.tokens
            /\ UNCHANGED <<strictQuery, nextId, users, now, issued, reqs>>
            /\ IF ~authResult.success
               THEN /\ last' = Answer(resp, authResult.status, authResult.error)
                    /\ UNCHANGED <<folders, mnemonics>>
               ELSE IF ~dbUp
               THEN /\ last' = Answer(resp, 500, "Failed to delete folder")
                    /\ UNCHANGED <<folders, mnemonics>>
               ELSE \E folder \in FindOne(folders, [_id |-> id, userId |-> authResult.user],
                                          FolderSchemaPaths) :
                      IF folder = NoDoc
                      THEN /\ last' = Answer(resp, 404, "Folder not found")
                           /\ UNCHANGED <<folders, mnemonics>>
                      ELSE LET doomed == Find(mnemonics, FolderMnemonicsFilter(id),
                                              MnemonicSchemaPaths)
                           IN  /\ mnemonics' = mnemonics \ doomed
                               /\ folders' = folders \ Find(folders, [_id |-> id],
                                                            FolderSchemaPaths)
                               /\ last' = [Answer(resp, 200, "") EXCEPT
                                             !.deletedMnemonics = Cardinality(doomed)]

\* ------------------------------------------------------------------ DELETE /api/mnemonics/{id}
\* mnemonics/[id]/route.ts 221-284.
DeleteMnemonic(sess, header, dbUp, id) ==
    \E tokenDoc \in TokenDocChoices(header) :
        LET authResult == hybridAuth(sess, header, dbUp, tokenDoc)
            resp == [HybridResp("DELETE /api/mnemonics/{id}", sess, header, authResult)
                       EXCEPT !.id = id]
        IN  /\ tokens' = authResult.tokens
            /\ UNCHANGED <<strictQuery, nextId, users, folders, now, issued, reqs>>
            /\ IF ~authResult.success
               THEN /\ last' = Answer(resp, authResult.status, authResult.error)
                    /\ UNCHANGED mnemonics
               ELSE IF ~dbUp
               THEN /\ last' = Answer(resp, 500, "Failed to delete mnemonic")
                    /\ UNCHANGED mnemonics
               ELSE \E mnemonic \in FindOne(mnemonics, [_id |-> id], MnemonicSchemaPaths) :
                      IF mnemonic = NoDoc
                      THEN /\ last' = Answer(resp, 404, "Mnemonic not found")
                           /\ UNCHANGED mnemonics
                      ELSE IF ~IsOwner(mnemonic, authResult.user)
                      THEN /\ last' = Answer(resp, 403, "Unauthorized")
                           /\ UNCHANGED mnemonics
                      ELSE IF /\ authResult.source = "session"
                              /\ mnemonic.folderId /= 0
                              /\ FindOne(folders, [_id |-> mnemonic.folderId,
                                                   userId |-> authResult.user],
                                         FolderSchemaPaths) = {NoDoc}
                      THEN /\ last' = Answer(resp, 403, "Unauthorized")
                           /\ UNCHANGED mnemonics
                      ELSE /\ mnemonics' = mnemonics \ Find(mnemonics, [_id |-> id],
                                                            MnemonicSchemaPaths)
                           /\ last' = Answer(resp, 200, "")

\* ------------------------------------------------------------------ GET /api/tokens
\* A listing that returns the stored records whole.
TokenListingWhole(docs) == docs

\* tokens/route.ts 8-25: the caller's records without hashedToken.
TokenListing(docs) == {[f \in (DOMAIN d) \ {"hashedToken"} |-> d[f]] : d \in docs}

GetTokens(sess) ==
    /\ UNCHANGED <<strictQuery, nextId, users, tokens, folders, mnemonics, now, issued, reqs>>
    /\ IF requireAuthStatus(sess) /= 200
       THEN last' = [Step("GET /api/tokens") EXCEPT
                       !.status = requireAuthStatus(sess),
                       !.error = "Failed to fetch tokens", !.sess = sess]
       ELSE last' = [Step("GET /api/tokens") EXCEPT
                       !.status = 200, !.sess = sess, !.user = sess,
                       !.data = TokenListing(Find(tokens, [userId |-> sess],
                                                  TokenSchemaPaths))]

\* Token issuance and verification, one request at a time, for one account.
AuthUsers == {"u1"}
AuthSessions == AuthUsers \cup {NoSession, SessionThrows}

NextAuth ==
    \/ Tick
    \/ \E u \in AuthUsers : UserRemoved(u)
    \/ \E h \in Headers, dbUp \in BOOLEAN : GetMe(h, dbUp)
    \/ \E sess \in AuthSessions, name \in NameBodies : reqs = {} /\ PostTokenRead(sess, name)
    \/ \E r \in reqs : PostTokenSave(r)
    \/ \E sess \in AuthSessions, id \in TokenIds : DeleteToken(sess, id)
    \/ \E sess \in AuthSessions, h \in Headers, dbUp \in BOOLEAN : GetFolders(sess, h, dbUp)

SpecAuth == Init /\ [][NextAuth]_vars

\* Interleaved creations and renames of folders and mnemonics by signed-in accounts.
RaceSessions == AllUsers
RaceNames == {Str(<<"a">>), Str(<<"b">>)}
OneCommand == Arr(<<Obj([command |-> Str(<<"l", "s">>)])>>)
NoCommands == Arr(<<>>)

\* Who asks for which name: the second account only ever asks for one name.
RaceAsks == {x \in RaceSessions \X RaceNames : x[1] = "u2" => x[2] = Str(<<"a">>)}

NextRace ==
    \/ \E x \in RaceAsks : PostFolderRead(x[1], <<>>, TRUE, x[2])
    \/ \E r \in reqs : PostFolderSave(r)
    \/ \E x \in RaceAsks, id \in 1..MaxFolders : PutFolderRead(x[1], <<>>, TRUE, id, x[2])
    \/ \E r \in reqs : PutFolderSave(r)
    \/ \E x \in RaceAsks, folderId \in 1..MaxFolders, commands \in {OneCommand, NoCommands} :
          PostMnemonicRead(x[1], <<>>, TRUE, folderId, x[2], commands)
    \/ \E r \in reqs : PostMnemonicSave(r)
    \/ \E x \in RaceAsks, id \in 1..MaxMnemonics :
          PutMnemonicRead(x[1], <<>>, TRUE, id, x[2], OneCommand)
    \/ \E r \in reqs : PutMnemonicSave(r)

SpecRace == Init /\ [][NextRace]_vars

\* Interleaved creations and renames of tokens by signed-in accounts.
NextTokenRace ==
    \/ \E sess \in RaceSessions, name \in RaceNames : PostTokenRead(sess, name)
    \/ \E r \in reqs : PostTokenSave(r)
    \/ \E sess \in RaceSessions, id \in 1..MaxTokens, name \in RaceNames :
          PutTokenRead(sess, id, name)
    \/ \E r \in reqs : PutTokenSave(r)

SpecTokenRace == Init /\ [][NextTokenRace]_vars

\* Folders and their mnemonics, one request at a time, for two signed-in accounts.
FolderNames == {Str(<<"a">>), Str(<<" ", "a">>), Str(<<"b">>)}

NextFolders ==
    \/ \E sess \in AllUsers, name \in FolderNames :
          reqs = {} /\ PostFolderRead(sess, <<>>, TRUE, name)
    \/ \E r \in reqs : PostFolderSave(r)
    \/ \E sess \in AllUsers, id \in FolderIds, name \in RaceNames :
          reqs = {} /\ PutFolderRead(sess, <<>>, TRUE, id, name)
    \/ \E r \in reqs : PutFolderSave(r)
    \/ \E sess \in AllUsers, id \in FolderIds : reqs = {} /\ DeleteFolder(sess, <<>>, TRUE, id)
    \/ \E sess \in AllUsers, folderId \in 1..MaxFolders, name \in RaceNames :
          reqs = {} /\ PostMnemonicRead(sess, <<>>, TRUE, folderId, name, OneCommand)
    \/ \E r \in reqs : PostMnemonicSave(r)

SpecFolders == Init /\ [][NextFolders]_vars

\* The token endpoints, one request at a time, for two accounts.
TokenSessions == AllUsers \cup {NoSession}

NextTokens ==
    \/ \E sess \in TokenSessions, name \in FolderNames :
          reqs = {} /\ PostTokenRead(sess, name)
    \/ \E r \in reqs : PostTokenSave(r)
    \/ \E sess \in TokenSessions, id \in TokenIds, name \in RaceNames :
          reqs = {} /\ PutTokenRead(sess, id, name)
    \/ \E r \in reqs : PutTokenSave(r)
    \/ \E sess \in TokenSessions, id \in TokenIds : reqs = {} /\ DeleteToken(sess, id)
    \/ \E sess \in TokenSessions : reqs = {} /\ GetTokens(sess)
    \/ \E h \in Headers : reqs = {} /\ GetMe(h, TRUE)

SpecTokens == Init /\ [][NextTokens]_vars

\* Mnemonics of two accounts, by session or by bearer token; a folder may be deleted
\* while a mnemonic request is between its checks and its write.
Callers ==
    {<<u, <<>>>> : u \in AllUsers} \cup {<<NoSession, <<>>>>}
       \cup {<<NoSession, <<"Bearer ", t>>>> : t \in issued}

NextMnemonics ==
    \/ reqs = {} /\ PostTokenRead("u1", Str(<<"a">>))
    \/ \E r \in reqs : PostTokenSave(r)
    \/ \E sess \in AllUsers : reqs = {} /\ PostFolderRead(sess, <<>>, TRUE, Str(<<"a">>))
    \/ \E r \in reqs : PostFolderSave(r)
    \/ \E sess \in AllUsers, id \in 1..MaxFolders : DeleteFolder(sess, <<>>, TRUE, id)
    \/ \E c \in Callers, folderId \in 0..MaxFolders :
          reqs = {} /\ PostMnemonicRead(c[1], c[2], TRUE, folderId, Str(<<"a">>), OneCommand)
    \/ \E r \in reqs : PostMnemonicSave(r)
    \/ \E c \in Callers, id \in MnemonicIds :
          reqs = {} /\ PutMnemonicRead(c[1], c[2], TRUE, id, Str(<<"b">>), OneCommand)
    \/ \E r \in reqs : PutMnemonicSave(r)
    \/ \E c \in Callers, id \in MnemonicIds :
          reqs = {} /\ DeleteMnemonic(c[1], c[2], TRUE, id)

SpecMnemonics == Init /\ [][NextMnemonics]_vars

\* Command payloads of one signed-in account, one request at a time.
TextStep(value) == Obj([type |-> Str(<<"text">>), value |-> Str(value)])
EnterStep == Obj([type |-> Str(<<"enter">>)])
KeyStep(key) == Obj([type |-> Str(<<"key">>), key |-> Str(key)])
Command(command, inputs) == Obj([command |-> Str(command), inputs |-> Arr(inputs)])

MixedCommands == Arr(<<Command(<<" ", " ">>, <<>>), Command(<<"g", "p">>, <<>>)>>)
AllBlank == Arr(<<Command(<<" ">>, <<>>)>>)
WithInputs == Arr(<<Command(<<" ", "l", "s">>, <<TextStep(<<"y">>), EnterStep, KeyStep(<<"up">>)>>)>>)
EmptyText == Arr(<<Command(<<"l", "s">>, <<TextStep(<<>>)>>)>>)
BadKey == Arr(<<Command(<<"l", "s">>, <<KeyStep(<<"f1">>)>>)>>)
CommandBodies == {OneCommand, NoCommands, MixedCommands, AllBlank, WithInputs, EmptyText,
                  BadKey, Undefined}

NextCommands ==
    \/ reqs = {} /\ PostFolderRead("u1", <<>>, TRUE, Str(<<"a">>))
    \/ \E r \in reqs : PostFolderSave(r)
    \/ \E name \in RaceNames, commands \in CommandBodies :
          reqs = {} /\ PostMnemonicRead("u1", <<>>, TRUE, 1, name, commands)
    \/ \E r \in reqs : PostMnemonicSave(r)
    \/ \E id \in 1..MaxMnemonics, commands \in CommandBodies :
          reqs = {} /\ PutMnemonicRead("u1", <<>>, TRUE, id, Str(<<"a">>), commands)
    \/ \E r \in reqs : PutMnemonicSave(r)

SpecCommands == Init /\ [][NextCommands]_vars

\* ------------------------------------------------------------------ input steps
\* The rest of the state while a pure function is exercised.
Idle ==
    /\ strictQuery = FALSE
    /\ users = AllUsers
    /\ tokens = {}
    /\ folders = {}
    /\ mnemonics = {}
    /\ now = 0
    /\ issued = {}
    /\ nextId = [folder |-> 1, mnemonic |-> 1]
    /\ reqs = {}

IdleUnchanged ==
    UNCHANGED <<strictQuery, users, tokens, folders, mnemonics, now, issued, nextId, reqs>>

JsonNull == [type |-> "null"]

StepTypes == {Str(<<"text">>), Str(<<"enter">>), Str(<<"key">>), Str(<<"wait">>), Number1}
StepValueFields == {Str(<<>>), Str(<<"y">>), Number1, JsonNull}
StepKeyFields == {Str(k) : k \in KeyNames} \cup {Str(<<"f1">>), Str(<<>>), Number1}

\* Every object built from an optional type, an optional value and an optional key.
StepObjects ==
    {Obj([f \in {"type"} |-> t]) : t \in StepTypes}
    \cup {Obj([f \in {"value"} |-> v]) : v \in StepValueFields}
    \cup {Obj([f \in {"type", "value"} |-> IF f = "type" THEN t ELSE v]) :
            t \in StepTypes, v \in StepValueFields}
    \cup {Obj([f \in {"type", "key"} |-> IF f = "type" THEN t ELSE k]) :
            t \in StepTypes, k \in StepKeyFields}
    \cup {Obj([f \in {"type", "value", "key"} |->
                 IF f = "type" THEN t ELSE IF f = "value" THEN v ELSE k]) :
            t \in StepTypes, v \in StepValueFields, k \in StepKeyFields}

NonObjects ==
    {Undefined, JsonNull, Number1, Str(<<>>), Str(<<"text">>), Str(<<"enter">>),
     Arr(<<>>), Arr(<<Str(<<"enter">>)>>), Obj(<<>>)}

StepInputs == StepObjects \cup NonObjects

\* isValidInputStep of lib/tokens.ts, the validator of imported JSON.
importIsValidInputStep(step) ==
    IF Falsy(step) \/ step.type \notin {"object", "array"} THEN FALSE
    ELSE IF Field(step, "type") = Str(<<"text">>)
         THEN Field(step, "value").type = "string"
    ELSE IF Field(step, "type") = Str(<<"enter">>) THEN TRUE
    ELSE IF Field(step, "type") = Str(<<"key">>)
         THEN Field(step, "key").type = "string" /\ Field(step, "key").val \in KeyNames
    ELSE FALSE

InitSteps == Idle /\ \E step \in StepInputs : last = [op |-> "input", step |-> step]

CheckStep ==
    /\ last.op = "input"
    /\ last' = [op |-> "isValidInputStep", step |-> last.step,
                api |-> isValidInputStep(last.step),
                import |-> importIsValidInputStep(last.step)]
    /\ IdleUnchanged

NextSteps == CheckStep

SpecSteps == InitSteps /\ [][NextSteps]_vars

\* ------------------------------------------------------------------ mnemonic names
Chars(n, c) == [i \in 1..n |-> c]

NameCases ==
    {Str(<<"d", "e", "p", "l", "o", "y", "-", "p", "r", "o", "d", "_", "2">>),
     Str(<<"D", "e", "p", "l", "o", "y">>),
     Str(<<"1", "a", "b", "c">>),
     Str(Chars(MaxNameTail + 2, "a")),
     Str(Chars(MaxNameTail + 1, "a")),
     Str(<<" ", "a", "b", " ">>),
     Str(<<"a", " ", "b">>),
     Str(<<"-", "a">>),
     Str(<<"a">>),
     Str(<<" ">>), Str(<<>>), Undefined, Number1}

NextNames ==
    \/ reqs = {} /\ PostFolderRead("u1", <<>>, TRUE, Str(<<"a">>))
    \/ \E r \in reqs : PostFolderSave(r)
    \/ \E name \in NameCases :
          reqs = {} /\ PostMnemonicRead("u1", <<>>, TRUE, 1, name, OneCommand)
    \/ \E r \in reqs : PostMnemonicSave(r)
    \/ \E id \in 1..MaxMnemonics, name \in NameCases :
          reqs = {} /\ PutMnemonicRead("u1", <<>>, TRUE, id, name, OneCommand)
    \/ \E r \in reqs : PutMnemonicSave(r)

SpecNames == Init /\ [][NextNames]_vars

\* ------------------------------------------------------------------ migrationHelpers.ts
Throws == [type |-> "throws"]

BlankCommand == Command(<<>>, <<>>)

\* A callback that puts the element among the inputs.
LegacyCommandAsInput(cmd) == Obj([command |-> Str(<<>>), inputs |-> Arr(<<cmd>>)])

\* cmd => ({ command: cmd, inputs: [] })
LegacyCommand(cmd) == Obj([command |-> cmd, inputs |-> Arr(<<>>)])

\* A detection that never recognises the current format.
FirstIsNeverCommand(first) == FALSE

\* typeof commands[0] === 'object' && 'command' in commands[0]; the in operator
\* throws a TypeError on null, whose typeof is 'object' too.
FirstIsCommand(first) == first.type = "object" /\ "command" \in DOMAIN first.val

migrateCommands(commands) ==
    IF Falsy(commands) \/ (commands.type = "array" /\ Len(commands.val) = 0)
    THEN Arr(<<BlankCommand>>)
    ELSE IF commands.type /= "array" THEN Throws
    ELSE IF commands.val[1].type = "null" THEN Throws
    ELSE IF FirstIsCommand(commands.val[1]) THEN commands
    ELSE Arr([i \in 1..Len(commands.val) |-> LegacyCommand(commands.val[i])])

MaxCommands == 3

LegacyStrings == {Str(<<"a">>), Str(<<"b">>), Str(<<>>)}
ShapeB == Obj([command |-> Str(<<"a">>), inputs |-> Arr(<<Str(<<"x">>), Str(<<"y">>)>>)])
ShapeC == Command(<<"a">>, <<TextStep(<<"x">>), EnterStep>>)
NoInputs == Command(<<"b">>, <<>>)
NoCommandField == Obj([inputs |-> Arr(<<>>)])

CommandElements == LegacyStrings \cup {ShapeB, ShapeC, NoInputs, NoCommandField, JsonNull}

\* Arrays of up to two elements of any shape, and of MaxCommands plain strings.
MigrationInputs ==
    {Undefined, JsonNull}
    \cup {Arr(seq) : seq \in UNION {[1..n -> CommandElements] : n \in 0..(MaxCommands - 1)}}
    \cup {Arr(seq) : seq \in [1..MaxCommands -> LegacyStrings]}

InitMigrate ==
    Idle /\ \E commands \in MigrationInputs :
                last = [op |-> "input", commands |-> commands, result |-> Undefined,
                        again |-> Undefined]

Migrate ==
    /\ last.op = "input"
    /\ last' = [last EXCEPT !.op = "migrateCommands",
                            !.result = migrateCommands(last.commands)]
    /\ IdleUnchanged

\* migrateCommands on what migrateCommands returned.
MigrateAgain ==
    /\ last.op = "migrateCommands" /\ last.result /= Throws
    /\ last' = [last EXCEPT !.op = "migrateCommands twice",
                            !.again = migrateCommands(last.result)]
    /\ IdleUnchanged

NextMigrate == Migrate \/ MigrateAgain

SpecMigrate == InitMigrate /\ [][NextMigrate]_vars

\* ------------------------------------------------------------------ updates
PaddedCommand == Arr(<<Obj([command |-> Str(<<" ", "l", "s", " ">>)])>>)

PutBodies ==
    {Obj([name |-> Str(<<" ", "b", " ">>), commands |-> WithInputs]),
     Obj([name |-> Str(<<"c">>), commands |-> PaddedCommand, folderId |-> Str(<<"2">>)])}

NextUpdate ==
    \/ Tick
    \/ reqs = {} /\ PostFolderRead("u1", <<>>, TRUE, Str(<<"a">>))
    \/ \E r \in reqs : PostFolderSave(r)
    \/ \E name \in RaceNames :
          reqs = {} /\ PostMnemonicRead("u1", <<>>, TRUE, 1, name, OneCommand)
    \/ \E r \in reqs : PostMnemonicSave(r)
    \/ \E id \in 1..MaxMnemonics, body \in PutBodies :
          PutMnemonicBody("u1", <<>>, TRUE, id, body)
    \/ \E r \in reqs : PutMnemonicSave(r)

SpecUpdate == Init /\ [][NextUpdate]_vars

\* ------------------------------------------------------------------ verifyAuth, step by step
\* verifyAuth up to tokenDoc.lastUsed = new Date() (session.ts 52-104): the time is
\* taken here, the write of tokenDoc.save() lands later.
VerifyRead(header) ==
    \E tokenDoc \in TokenDocChoices(header) :
        LET token == extractTokenFromHeader(header)
            resp == [Step("GET /api/me") EXCEPT !.token = token]
        IN  /\ UNCHANGED <<strictQuery, nextId, users, tokens, folders, mnemonics, now, issued>>
            /\ IF token = Null \/ token = EmptyString
               THEN last' = Answer(resp, 401, "Authorization header required")
                    /\ UNCHANGED reqs
               ELSE IF ~verifyToken(token, now)
               THEN last' = Answer(resp, 401, "Invalid or expired token") /\ UNCHANGED reqs
               ELSE IF tokenDoc = NoDoc
               THEN last' = Answer(resp, 401, "Token has been revoked") /\ UNCHANGED reqs
               ELSE IF ~verifyHashedToken(token, tokenDoc.hashedToken)
               THEN last' = Answer(resp, 401, "Invalid token") /\ UNCHANGED reqs
               ELSE /\ FreeRids /= {}
                    /\ reqs' = reqs \cup
                         {[Pending("GET /api/me", token.userId, "token", tokenDoc._id,
                                   tokenDoc.name) EXCEPT !.lastUsed = now]}
                    /\ last' = [resp EXCEPT !.op = "pending"]

\* The write of tokenDoc.save() and the rest of verifyAuth (session.ts 105-130); save()
\* of a document that is gone throws, which the catch answers with 500.
VerifySave(r) ==
    /\ r \in reqs /\ r.op = "GET /api/me"
    /\ reqs' = reqs \ {r}
    /\ UNCHANGED <<strictQuery, nextId, users, folders, mnemonics, now, issued>>
    /\ LET resp == [Step("GET /api/me") EXCEPT !.id = r.id, !.tokenName = r.name]
       IN  IF ~\E d \in tokens : d._id = r.id
           THEN /\ UNCHANGED tokens
                /\ last' = Answer(resp, 500, "Authentication failed")
           ELSE /\ tokens' = {IF d._id = r.id THEN [d EXCEPT !.lastUsed = r.lastUsed] ELSE d :
                                d \in tokens}
                /\ IF r.user \notin users
                   THEN last' = Answer(resp, 404, "User not found")
                   ELSE last' = [Answer(resp, 200, "") EXCEPT
                                   !.user = r.user, !.source = "token",
                                   !.tokenLastUsed = r.lastUsed]

NextLastUsed ==
    \/ Tick
    \/ reqs = {} /\ PostTokenRead("u1", Str(<<"a">>))
    \/ \E r \in reqs : PostTokenSave(r)
    \/ \E id \in TokenIds : DeleteToken("u1", id)
    \/ \E h \in Headers : VerifyRead(h)
    \/ \E r \in reqs : VerifySave(r)

SpecLastUsed == Init /\ [][NextLastUsed]_vars

\* ------------------------------------------------------------------ GET /api/mnemonics
\* The filter of Mnemonic.find (mnemonics/route.ts 193).
FolderListingFilter(folderId) == [folderId |-> folderId]

\* mnemonics/route.ts 163-207: session only; folderId 0 stands for no folderId parameter.
GetMnemonics(sess, folderId) ==
    /\ UNCHANGED <<strictQuery, nextId, users, tokens, folders, mnemonics, now, issued, reqs>>
    /\ LET resp == [Step("GET /api/mnemonics") EXCEPT !.sess = sess, !.id = folderId]
       IN  IF requireAuthStatus(sess) /= 200
           THEN last' = Answer(resp, requireAuthStatus(sess), "Failed to fetch mnemonics")
           ELSE IF folderId = 0
           THEN last' = Answer([resp EXCEPT !.user = sess], 400, "Folder ID is required")
           ELSE IF FindOne(folders, [_id |-> folderId, userId |-> sess], FolderSchemaPaths)
                     = {NoDoc}
           THEN last' = Answer([resp EXCEPT !.user = sess], 404, "Folder not found")
           ELSE last' = [Answer(resp, 200, "") EXCEPT
                           !.user = sess, !.source = "session",
                           !.data = Find(mnemonics, FolderListingFilter(folderId),
                                         MnemonicSchemaPaths)]

\* ------------------------------------------------------------------ GET /api/mnemonics/name/{name}
\* A lookup by name alone.
MnemonicByNameAnyOwner(user, name) == [name |-> name]

\* The filter of Mnemonic.findOne (part_011 204-207).
MnemonicByNameFilter(user, name) == [name |-> name, userId |-> user]

\* part_011 188-233: bearer token only; the body carries name and commands.
GetMnemonicByName(header, dbUp, name) ==
    \E tokenDoc \in TokenDocChoices(header) :
        LET authResult == verifyAuth(header, dbUp, tokenDoc)
            resp == [Step("GET /api/mnemonics/name/{name}") EXCEPT
                       !.token = extractTokenFromHeader(header), !.name = name,
                       !.cause = authResult.error, !.user = authResult.user,
                       !.source = IF authResult.success THEN "token" ELSE "none"]
        IN  /\ tokens' = authResult.tokens
            /\ UNCHANGED <<strictQuery, nextId, users, folders, mnemonics, now, issued, reqs>>
            /\ IF ~authResult.success
               THEN last' = Answer(resp, authResult.status, authResult.error)
               ELSE \E mnemonic \in FindOne(mnemonics,
                                            MnemonicByNameFilter(authResult.user, name),
                                            MnemonicSchemaPaths) :
                      IF mnemonic = NoDoc
                      THEN last' = Answer(resp, 404, "Mnemonic not found")
                      ELSE last' = [Answer(resp, 200, "") EXCEPT
                                      !.data = {[name |-> mnemonic.name,
                                                 commands |-> mnemonic.commands]}]

\* ------------------------------------------------------------------ two accounts
\* Each account sends commands of its own, so that a response shows whose record
\* it carries.
OwnCommands(sess) == IF sess = "u1" THEN OneCommand ELSE WithInputs

NextIsolation ==
    \/ reqs = {} /\ PostTokenRead("u2", Str(<<"a">>))
    \/ \E r \in reqs : PostTokenSave(r)
    \/ \E sess \in AllUsers : reqs = {} /\ PostFolderRead(sess, <<>>, TRUE, Str(<<"a">>))
    \/ \E r \in reqs : PostFolderSave(r)
    \/ \E c \in Callers, folderId \in 0..MaxFolders :
          reqs = {} /\ PostMnemonicRead(c[1], c[2], TRUE, folderId, Str(<<"a">>),
                                        OwnCommands(c[1]))
    \/ \E r \in reqs : PostMnemonicSave(r)
    \/ \E c \in Callers, id \in MnemonicIds :
          reqs = {} /\ PutMnemonicRead(c[1], c[2], TRUE, id, Str(<<"a">>), OwnCommands(c[1]))
    \/ \E r \in reqs : PutMnemonicSave(r)
    \/ \E c \in Callers, id \in MnemonicIds : reqs = {} /\ DeleteMnemonic(c[1], c[2], TRUE, id)
    \/ \E c \in Callers, id \in 1..MaxFolders : reqs = {} /\ DeleteFolder(c[1], c[2], TRUE, id)
    \/ \E sess \in AllUsers, id \in TokenIds : reqs = {} /\ DeleteToken(sess, id)
    \/ \E c \in Callers : reqs = {} /\ GetFolders(c[1], c[2], TRUE)
    \/ \E sess \in AllUsers : reqs = {} /\ GetTokens(sess)
    \/ \E sess \in AllUsers, folderId \in 1..MaxFolders : reqs = {} /\ GetMnemonics(sess, folderId)
    \/ \E c \in Callers : reqs = {} /\ GetMnemonicByName(c[2], TRUE, <<"a">>)

SpecIsolation == Init /\ [][NextIsolation]_vars

\* ------------------------------------------------------------------ claims
\* The stored record of a raw token, and the states of a token.
RecordOf(token) == {d \in tokens : decrypt(d.hashedToken) = token}
Active(token) == token \in issued /\ RecordOf(token) /= {}
Revoked(token) == token \in issued /\ RecordOf(token) = {}
DbError == "Authentication failed"

\* C1: a token verified right after POST /api/tokens returned it (the database up)
\* is accepted, resolves the issuing user, and leaves lastUsed set and not earlier
\* than the issuance time.
C1_RoundTrip ==
    (last.op = "GET /api/me" /\ last.fresh) =>
        /\ last.status = 200
        /\ last.user = last.token.userId
        /\ last.user = last.token.email
        /\ \A d \in RecordOf(last.token) : d.lastUsed /= Unset /\ d.lastUsed >= d.createdAt

\* C2: a revoked token is never accepted again: its verification answers 401
\* (500 only when the database call itself failed), it is never a success, and a
\* token's record goes absent -> active -> revoked and never back.
C2_RevokedStaysRejected ==
    (last.op \in {"GET /api/me", "GET /api/folders"} /\ Revoked(last.token)) =>
        /\ last.source /= "token"
        /\ (last.op = "GET /api/me") =>
               (last.status /= 200 /\ (last.cause /= DbError => last.status = 401))
        /\ (last.op = "GET /api/folders" /\ last.sess \notin AllUsers) => last.status = 401

C2_Lifecycle ==
    \A t \in issued' :
        /\ t \notin issued => Active(t)'
        /\ Revoked(t) => Revoked(t)'

C3_LookupByPair ==
    (/\ last.op = "GET /api/me"
     /\ Active(last.token)
     /\ verifyToken(last.token, now)
     /\ last.cause /= DbError
     /\ last.token.userId \in users) =>
        /\ last.status = 200
        /\ \A d \in RecordOf(last.token) : last.tokenName = d.name /\ d.lastUsed = now

\* C4: hybridAuth answers from the session whenever it yields an identity, without
\* touching any token record; it answers source = "token" only without a session
\* identity, and then the presented token's record was stamped.
C4_Order ==
    (last'.op = "GET /api/folders") =>
        /\ (last'.sess \in AllUsers) =>
               (last'.source = "session" /\ last'.user = last'.sess /\ tokens' = tokens)
        /\ (last'.source = "token") =>
               /\ last'.sess \notin AllUsers
               /\ last'.user = last'.token.userId
               /\ \E d \in tokens' : decrypt(d.hashedToken) = last'.token /\ d.lastUsed = now

C4_SessionFirst == [][C4_Order]_vars

C4_Witness ==
    /\ last.op = "GET /api/folders"
    /\ last.sess \in AllUsers
    /\ Active(last.token)
    /\ verifyToken(last.token, now)
    /\ last.status = 200
    /\ last.source = "session"

\* C5: a failed hybridAuth is one generic 401, whatever made verification fail.
C5_GenericFailure ==
    (last.op = "GET /api/folders" /\ last.source = "none") =>
        (last.status = 401 /\ last.error = GenericAuthError)

C5_Witness ==
    /\ last.op = "GET /api/folders"
    /\ last.source = "none"
    /\ last.cause = DbError
    /\ last.status = 401

\* C6: every failure of verifyAuth other than a failed database call answers 401.
C6_VerifyFailureIs401 ==
    (last.op = "GET /api/me" /\ last.status /= 200 /\ last.cause /= DbError) =>
        last.status = 401

\* C7: a request answered with a non-2xx status leaves the collections as they were.
C7_Frame ==
    (last'.status \notin {0, 200, 201}) =>
        (tokens' = tokens /\ folders' = folders /\ mnemonics' = mnemonics)

C7_NoPartialEffects == [][C7_Frame]_vars

SameOwnerAndName(d1, d2) == d1.userId = d2.userId /\ d1.name = d2.name

\* C8: in every reachable state no two folders of one user share a name and no two
\* mnemonics of one user share a name, whatever the interleaving of POST and PUT.
C8_UniqueNames ==
    /\ \A d1, d2 \in folders : (d1._id /= d2._id) => ~SameOwnerAndName(d1, d2)
    /\ \A d1, d2 \in mnemonics : (d1._id /= d2._id) => ~SameOwnerAndName(d1, d2)

\* A rename that passed its pre-check was turned down by the index, while the account
\* holds two folders and two mnemonics.
C8_Witness ==
    /\ last.raced /\ last.op = "PUT /api/mnemonics/{id}"
    /\ Cardinality({d \in folders : d.userId = last.user}) = 2
    /\ Cardinality({d \in mnemonics : d.userId = last.user}) = 2

\* C9: in every reachable state no two token records of one user share a name,
\* whatever the interleaving of POST /api/tokens and PUT /api/tokens/{id}.
C9_TokenNamesUnique ==
    \A d1, d2 \in tokens : (d1._id /= d2._id) => ~SameOwnerAndName(d1, d2)

\* A pending creation r finishes while a record with its owner and name is stored:
\* r passed the pre-check and a concurrent request took the name first.
Lost(r, coll) ==
    /\ r \in reqs /\ r \notin reqs'
    /\ \E d \in coll : d.userId = r.user /\ d.name = r.name

LoserGets409(r, coll, collAfter) ==
    /\ last'.status = 409
    /\ collAfter = coll
    /\ Cardinality({d \in collAfter : d.userId = r.user /\ d.name = r.name}) = 1

C10_AnyLoser ==
    \A r \in reqs :
        /\ (r.op = "POST /api/folders" /\ Lost(r, folders))
              => LoserGets409(r, folders, folders')
        /\ (r.op = "POST /api/mnemonics" /\ Lost(r, mnemonics))
              => LoserGets409(r, mnemonics, mnemonics')

C10_ValidLoser ==
    \A r \in reqs :
        /\ (r.op = "POST /api/folders" /\ Lost(r, folders))
              => LoserGets409(r, folders, folders')
        /\ (r.op = "POST /api/mnemonics" /\ Lost(r, mnemonics)
              /\ MnemonicSchemaValid(r.name, r.commands))
              => LoserGets409(r, mnemonics, mnemonics')
        /\ (r.op = "POST /api/mnemonics" /\ Lost(r, mnemonics)
              /\ ~MnemonicSchemaValid(r.name, r.commands))
              => (last'.status = 400 /\ mnemonics' = mnemonics)

C11_Step ==
    /\ \A sess \in AllUsers, name \in FolderNames :
          PostFolderRead(sess, <<>>, TRUE, name) =>
             IF \E d \in folders : d.userId = sess /\ d.name = Trim(name.val)
             THEN last'.status = 409 /\ folders' = folders /\ reqs' = reqs
             ELSE last'.op = "pending" /\ reqs' /= reqs
    /\ \A r \in reqs :
          (PostFolderSave(r) /\ ~\E d \in folders : d.userId = r.user /\ d.name = r.name) =>
             /\ last'.status = 201
             /\ \E d \in folders' :
                   /\ d.userId = r.user /\ d.name = r.name
                   /\ folders' = folders \cup {d} /\ d \notin folders

\* C11: a second POST /api/folders by a user with a name equal, after trimming, to one
\* of that user's folders is answered 409 and creates nothing; a name only another
\* user holds is accepted and the folder is created.
C11_PerUserNames == [][C11_Step]_vars

\* Both accounts hold a folder "a" and a further POST of " a" was just answered 409.
C11_Witness ==
    /\ last.op = "POST /api/folders" /\ last.status = 409
    /\ \E d1, d2 \in folders :
          /\ d1.userId /= d2.userId /\ d1.name = d2.name
          /\ d1.userId = last.user

C12_Step ==
    \A sess \in AllUsers, name \in FolderNames :
        (/\ PostTokenRead(sess, name)
         /\ \E d \in tokens : d.userId = sess /\ d.name = Trim(name.val))
        => /\ last'.status = 409
           /\ tokens' = tokens /\ issued' = issued /\ reqs' = reqs
           /\ last'.token = Null /\ last'.data = {}

\* C12: POST /api/tokens with a name equal, after trimming, to the name of a token of
\* the same user is answered 409, stores no record and returns no raw token.
C12_DuplicateTokenName == [][C12_Step]_vars

\* A POST /api/tokens was just answered 409 while the caller holds a token.
C12_Witness ==
    /\ last.op = "POST /api/tokens" /\ last.status = 409
    /\ \E d \in tokens : d.userId = last.user

C13_Step ==
    (last'.op = "DELETE /api/folders/{id}" /\ last'.status = 200) =>
        /\ \E f \in folders : f._id = last'.id
        /\ folders' = {f \in folders : f._id /= last'.id}
        /\ mnemonics' = {d \in mnemonics : d.folderId /= last'.id}
        /\ last'.deletedMnemonics = Cardinality({d \in mnemonics : d.folderId = last'.id})

OwnsFolder(user, folderId) == \E f \in folders : f._id = folderId /\ f.userId = user

HoldsName(user, name) == \E d \in mnemonics : d.userId = user /\ d.name = name

\* The header of the request that a response answers.
HeaderOf(token) == IF token = Null THEN <<>> ELSE <<"Bearer ", token>>

C14_Read ==
    \A c \in {<<last'.sess, HeaderOf(last'.token)>>}, folderId \in 0..MaxFolders :
        (/\ last'.op \in {"POST /api/mnemonics", "pending"}
         /\ reqs \subseteq reqs'
         /\ PostMnemonicRead(c[1], c[2], TRUE, folderId, Str(<<"a">>), OneCommand)) =>
           /\ mnemonics' = mnemonics
           /\ (last'.source = "session" /\ folderId = 0)
                 => (last'.status = 400 /\ reqs' = reqs)
           /\ (last'.source /= "none" /\ folderId /= 0 /\ ~OwnsFolder(last'.user, folderId))
                 => (last'.status = 404 /\ reqs' = reqs)
           /\ (last'.source = "token" /\ folderId = 0 /\ ~HoldsName(last'.user, <<"a">>))
                 => /\ last'.op = "pending"
                    /\ \E r \in reqs' : r \notin reqs /\ r.folderId = 0
                                        /\ r.user = c[2][2].userId /\ r.source = "token"

C14_Save ==
    \A r \in reqs \ reqs' :
        PostMnemonicSave(r) =>
           /\ mnemonics' /= mnemonics =>
                 \E d \in mnemonics' :
                    /\ d \notin mnemonics /\ mnemonics' = mnemonics \cup {d}
                    /\ d.userId = r.user /\ d.folderId = r.folderId
           /\ (r.source = "token" /\ r.folderId = 0 /\ ~HoldsName(r.user, r.name))
                 => (last'.status = 201 /\ mnemonics' /= mnemonics)

\* C14: on POST /api/mnemonics a session caller without folderId is answered 400 and
\* nothing is created; a token caller without folderId gets a mnemonic of the token's
\* user with folderId null; a folderId that names no folder of the caller creates nothing.
C14_FolderBySource == [][C14_Read /\ C14_Save]_vars

\* A bearer token just created a mnemonic without a folder.
C14_Witness ==
    /\ last.op = "POST /api/mnemonics" /\ last.status = 201 /\ last.source = "token"
    /\ \E d \in mnemonics : d._id = last.id /\ d.folderId = 0 /\ d.userId = last.user

\* The caller owns mnemonic id and, when signed in by session and the mnemonic has a
\* folder, owns that folder too.
MayTouch(user, source, id) ==
    \E d \in mnemonics :
        /\ d._id = id /\ d.userId = user
        /\ (source = "session" /\ d.folderId /= 0) => OwnsFolder(user, d.folderId)

C15_Step ==
    (last'.op \in {"PUT /api/mnemonics/{id}", "DELETE /api/mnemonics/{id}"}) =>
        /\ \A d \in mnemonics : d._id /= last'.id => d \in mnemonics'
        /\ ~MayTouch(last'.user, last'.source, last'.id)
              => (mnemonics' = mnemonics /\ last'.status >= 400)

\* C15: PUT and DELETE /api/mnemonics/{id} change or remove only the mnemonic named,
\* and only for its owner who, when signed in by session and the mnemonic has a
\* folder, also owns that folder; otherwise nothing changes and the request is refused.
C15_OwnerOnly == [][C15_Step]_vars

\* A signed-in owner was just refused on a mnemonic whose folder is gone.
C15_Witness ==
    /\ last.op = "PUT /api/mnemonics/{id}" /\ last.status = 403 /\ last.source = "session"
    /\ \E d \in mnemonics : d._id = last.id /\ d.userId = last.user /\ d.folderId /= 0

\* The id names a record of the collection that belongs to somebody else.
Foreign(coll, id, user) == \E d \in coll : d._id = id /\ d.userId /= user

NotFoundError(op) ==
    IF op \in {"PUT /api/folders/{id}", "DELETE /api/folders/{id}"} THEN "Folder not found"
    ELSE IF op \in {"PUT /api/mnemonics/{id}", "DELETE /api/mnemonics/{id}"}
    THEN "Mnemonic not found"
    ELSE "Token not found"

C16_Step ==
    (/\ last'.user /= "none"
     /\ \/ /\ last'.op \in {"PUT /api/folders/{id}", "DELETE /api/folders/{id}"}
           /\ Foreign(folders, last'.id, last'.user)
        \/ /\ last'.op \in {"PUT /api/mnemonics/{id}", "DELETE /api/mnemonics/{id}"}
           /\ Foreign(mnemonics, last'.id, last'.user)
        \/ /\ last'.op \in {"PUT /api/tokens/{id}", "DELETE /api/tokens/{id}"}
           /\ Foreign(tokens, last'.id, last'.user))
    => (last'.status = 404 /\ last'.error = NotFoundError(last'.op))

\* C16: a PUT or DELETE by an authenticated caller on a folder, mnemonic or token that
\* exists but belongs to another user is answered as for an absent id: 404, not found.
C16_ForeignLooksAbsent == [][C16_Step]_vars

C17_Step ==
    \A b \in last'.data :
        /\ "hashedToken" \notin DOMAIN b
        /\ "token" \in DOMAIN b =>
              /\ last'.op = "POST /api/tokens" /\ last'.status = 201
              /\ b.token \notin issued /\ b.token \in issued'

\* C17: a raw token appears only in the body of the POST /api/tokens that creates it,
\* and no response body carries a hashedToken.
C17_TokenShownOnce == [][C17_Step]_vars

\* GET /api/tokens just listed two stored tokens.
C17_Witness ==
    /\ last.op = "GET /api/tokens" /\ last.status = 200
    /\ Cardinality(last.data) = 2
    /\ \A b \in last.data : \E d \in tokens : d._id = b._id /\ d.name = b.name

C18_Step ==
    (last'.op = "DELETE /api/tokens/{id}" /\ last'.user /= "none") =>
        IF \E d \in tokens : d._id = last'.id /\ d.userId = last'.user
        THEN last'.status = 200 /\ tokens' = {d \in tokens : d._id /= last'.id}
        ELSE last'.status = 404 /\ tokens' = tokens

\* C18: DELETE /api/tokens/{id} by a signed-in user deletes exactly the token of that
\* id when the user owns it; for an absent or foreign id it answers 404 and changes
\* nothing, so a second revocation answers 404.
C18_RevokeOwnOnly == [][C18_Step]_vars

\* A token of the caller, revoked before, was just revoked again: 404.
C18_Witness ==
    /\ last.op = "DELETE /api/tokens/{id}" /\ last.status = 404
    /\ \E t \in issued : t.userId = last.user /\ t.tokenId = <<"tid", last.id>>
    /\ \E d \in tokens : d.userId /= last.user

\* C19: in every reachable state each stored mnemonic has at least one command, every
\* command string is non-empty after trimming and every input is a valid InputStep.
C19_StoredCommandsValid ==
    \A d \in mnemonics :
        /\ Len(d.commands) > 0
        /\ \A i \in 1..Len(d.commands) :
              /\ Len(Trim(d.commands[i].command)) > 0
              /\ \A j \in 1..Len(d.commands[i].inputs) :
                    isValidInputStep(d.commands[i].inputs[j])

C20_Step ==
    \A name \in RaceNames :
        (/\ last'.op \in {"POST /api/mnemonics", "pending"}
         /\ reqs \subseteq reqs'
         /\ PostMnemonicRead("u1", <<>>, TRUE, 1, name, MixedCommands)
         /\ OwnsFolder("u1", 1) /\ ~HoldsName("u1", name.val))
        => /\ last'.op = "pending"
           /\ \E r \in reqs' :
                 /\ r \notin reqs
                 /\ r.commands = <<[command |-> <<"g", "p">>, inputs |-> <<>>]>>

\* C20: a POST /api/mnemonics whose commands mix a whitespace-only command with a
\* non-blank one is accepted and goes on to store only the non-blank command, trimmed,
\* with inputs [].
C20_BlankCommandsDropped == [][C20_Step]_vars

\* A well-formed input step, stated on the JSON value itself.
TextWithString(v) ==
    /\ "type" \in DOMAIN v.val /\ v.val["type"].type = "string"
    /\ v.val["type"].val = <<"text">>
    /\ "value" \in DOMAIN v.val /\ v.val["value"].type = "string"

EnterOfAnyShape(v) ==
    /\ "type" \in DOMAIN v.val /\ v.val["type"].type = "string"
    /\ v.val["type"].val = <<"enter">>

KeyWithName(v) ==
    /\ "type" \in DOMAIN v.val /\ v.val["type"].type = "string"
    /\ v.val["type"].val = <<"key">>
    /\ "key" \in DOMAIN v.val /\ v.val["key"].type = "string"
    /\ v.val["key"].val \in {<<"up">>, <<"down">>, <<"left">>, <<"right">>, <<"space">>,
                             <<"tab">>, <<"backspace">>}

WellFormedStep(v) ==
    v.type = "object" /\ (TextWithString(v) \/ EnterOfAnyShape(v) \/ KeyWithName(v))

\* C21: both isValidInputStep functions accept a value exactly when it is an
\* object of type "text" with a string value (the empty string included), of
\* type "enter" whatever else it carries, or of type "key" with one of the seven
\* key names; every other value is rejected.
C21_AcceptsExactlyWellFormed ==
    last.op = "isValidInputStep" =>
        /\ last.api = WellFormedStep(last.step)
        /\ last.import = WellFormedStep(last.step)

\* An empty text value was accepted and a text step with a number was rejected.
C21_Witness ==
    /\ last.op = "isValidInputStep"
    /\ last.step = Obj([f \in {"type", "value", "key"} |->
                          IF f = "type" THEN Str(<<"text">>)
                          ELSE IF f = "value" THEN Str(<<>>) ELSE Str(<<"f1">>)])
    /\ last.api /\ last.import

\* ^[a-z][a-z0-9-_]{0,49}$ read as: 1 to 50 characters, the first a lowercase
\* letter, the others lowercase letters, digits, hyphens or underscores.
Conforms(s) ==
    /\ Len(s) \in 1..50
    /\ s[1] \in LowerCase
    /\ \A i \in 2..Len(s) : s[i] \in LowerCase \cup Digits \cup {"-", "_"}

ConformsTrimmed(name) == name.type = "string" /\ Conforms(Trim(name.val))

NameRejections ==
    {"Name and commands are required", "Mnemonic name is required",
     "Mnemonic name cannot be empty", "Mnemonic name must start with a lowercase letter"}

C22_Step ==
    /\ \A m \in mnemonics' : Conforms(m.name)
    /\ \A name \in NameCases :
         /\ PostMnemonicRead("u1", <<>>, TRUE, 1, name, OneCommand)
              => (last'.error \notin NameRejections <=> ConformsTrimmed(name))
         /\ \A id \in 1..MaxMnemonics :
              PutMnemonicRead("u1", <<>>, TRUE, id, name, OneCommand)
                => (last'.error \notin NameRejections <=> ConformsTrimmed(name))

\* C22: the name check of POST and PUT /api/mnemonics lets a name through exactly
\* when its trimmed form is 1 to 50 characters of [a-z0-9-_] starting with a
\* lowercase letter, and every stored mnemonic has such a name.
C22_NamesConform == [][C22_Step]_vars

\* A 50-character name is stored, and a 51-character name has just been refused.
C22_Witness ==
    /\ \E m \in mnemonics : Len(m.name) = MaxNameTail + 1
    /\ \E m \in mnemonics : m.name = <<"a", "b">>
    /\ last.status = 400 /\ last.error = "Mnemonic name must start with a lowercase letter"

Migrated == last.op \in {"migrateCommands", "migrateCommands twice"}

ShapeAInput(commands) ==
    /\ commands.type = "array" /\ Len(commands.val) >= 1
    /\ \A i \in 1..Len(commands.val) : commands.val[i].type = "string"

\* C23: a non-empty sequence of plain strings is migrated to a sequence of the
\* same length whose i-th element is {command: the i-th string, inputs: []}.
C23_ShapeA ==
    (Migrated /\ ShapeAInput(last.commands)) =>
        /\ last.result.type = "array"
        /\ Len(last.result.val) = Len(last.commands.val)
        /\ \A i \in 1..Len(last.commands.val) :
             /\ DOMAIN last.result.val[i].val = {"command", "inputs"}
             /\ last.result.val[i].val["command"] = last.commands.val[i]
             /\ last.result.val[i].val["inputs"] = [type |-> "array", val |-> <<>>]

\* ["a","b"] has become [{command:"a",inputs:[]},{command:"b",inputs:[]}].
C23_Witness ==
    /\ last.op = "migrateCommands"
    /\ last.commands = Arr(<<Str(<<"a">>), Str(<<"b">>)>>)
    /\ last.result = Arr(<<Command(<<"a">>, <<>>), Command(<<"b">>, <<>>)>>)

\* An array of {command: string, inputs: InputStep[]}.
CurrentFormat(commands) ==
    /\ commands.type = "array"
    /\ \A i \in 1..Len(commands.val) :
         LET cmd == commands.val[i]
         IN  /\ cmd.type = "object"
             /\ DOMAIN cmd.val = {"command", "inputs"}
             /\ cmd.val["command"].type = "string"
             /\ cmd.val["inputs"].type = "array"
             /\ \A j \in 1..Len(cmd.val["inputs"].val) :
                  WellFormedStep(cmd.val["inputs"].val[j])

Twice == last.op = "migrateCommands twice" => last.again = last.result

\* C24 as stated: every array already in the current format, the empty one
\* included, is returned unchanged, and migrating twice equals migrating once.
C24_CurrentFormatUnchanged ==
    /\ (Migrated /\ CurrentFormat(last.commands)) => last.result = last.commands
    /\ Twice

\* C24: a non-empty array already in the current format is returned unchanged,
\* and wherever migrateCommands returns, migrating its result again returns that
\* same result.
C24_Idempotent ==
    /\ (Migrated /\ CurrentFormat(last.commands) /\ Len(last.commands.val) > 0)
          => last.result = last.commands
    /\ Twice

\* A current-format array and a legacy array have both gone through twice.
C24_Witness ==
    /\ last.op = "migrateCommands twice"
    /\ last.commands \in {Arr(<<ShapeC, NoInputs>>), Arr(<<Str(<<"a">>), ShapeC>>)}
    /\ last.again = last.result

ShapeBInput(commands) ==
    /\ commands.type = "array" /\ Len(commands.val) >= 1
    /\ \A i \in 1..Len(commands.val) :
         LET cmd == commands.val[i]
         IN  /\ cmd.type = "object"
             /\ DOMAIN cmd.val = {"command", "inputs"}
             /\ cmd.val["inputs"].type = "array"
             /\ \A j \in 1..Len(cmd.val["inputs"].val) :
                  cmd.val["inputs"].val[j].type = "string"

\* C25: a sequence of {command, inputs: string[]} is migrated so that each input
\* string s becomes the step {type: "text", value: s}, in the same order and
\* with no other step added.
C25_ShapeBInputsBecomeText ==
    (Migrated /\ ShapeBInput(last.commands)) =>
        /\ last.result.type = "array"
        /\ Len(last.result.val) = Len(last.commands.val)
        /\ \A i \in 1..Len(last.commands.val) :
             LET old == last.commands.val[i].val["inputs"].val
                 new == last.result.val[i].val["inputs"].val
             IN  /\ last.result.val[i].val["command"] = last.commands.val[i].val["command"]
                 /\ Len(new) = Len(old)
                 /\ \A j \in 1..Len(old) :
                      new[j] = [type |-> "object",
                                val |-> [type |-> [type |-> "string", val |-> <<"text">>],
                                         value |-> old[j]]]

\* The request's commands, each command text trimmed and absent inputs read as [].
NormalCommands(commands) ==
    [i \in 1..Len(commands.val) |->
        [command |-> Trim(commands.val[i].val["command"].val),
         inputs |-> IF "inputs" \in DOMAIN commands.val[i].val
                    THEN commands.val[i].val["inputs"].val ELSE <<>>]]

C26_Step ==
    /\ \A body \in PutBodies, id \in 1..MaxMnemonics :
         (reqs' /= reqs /\ reqs \subseteq reqs'
            /\ PutMnemonicBody("u1", <<>>, TRUE, id, body)) =>
            \A r \in reqs' \ reqs :
               /\ r.id = id
               /\ r.name = Trim(body.val["name"].val)
               /\ r.commands = NormalCommands(body.val["commands"])
    /\ \A r \in reqs \ reqs' :
         (r.op = "PUT /api/mnemonics/{id}" /\ last'.status = 200) =>
            /\ Cardinality(mnemonics') = Cardinality(mnemonics)
            /\ \A d \in mnemonics :
                 IF d._id = r.id
                 THEN \E e \in mnemonics' :
                        /\ e._id = d._id
                        /\ e.name = r.name /\ e.commands = r.commands
                        /\ e.userId = d.userId /\ e.folderId = d.folderId
                        /\ e.createdAt = d.createdAt
                 ELSE d \in mnemonics'

\* C26: a successful PUT /api/mnemonics/{id} stores the trimmed name and the
\* normalized commands of the request in that mnemonic and changes neither its
\* userId, folderId or createdAt nor any other mnemonic; a folderId of the body
\* has no effect.
C26_PutFrame == [][C26_Step]_vars

\* Mnemonic 1, created at time 0 in folder 1, was renamed later by the body that
\* names another folder, next to an untouched mnemonic 2.
C26_Witness ==
    /\ last.op = "PUT /api/mnemonics/{id}" /\ last.status = 200 /\ last.id = 1
    /\ \E d \in mnemonics :
         /\ d._id = 1 /\ d.name = <<"c">> /\ d.folderId = 1
         /\ d.commands = <<[command |-> <<"l", "s">>, inputs |-> <<>>]>>
         /\ d.createdAt = 0 /\ d.updatedAt > 0
    /\ \E d \in mnemonics : d._id = 2 /\ d.updatedAt = d.createdAt

C27_Step ==
    /\ \A r \in reqs \ reqs' :
         (r.op = "GET /api/me" /\ last'.status = 200) =>
            \E d \in tokens' : d._id = r.id /\ d.lastUsed = r.lastUsed
    /\ \A d \in tokens : \A e \in tokens' : e._id = d._id => e.lastUsed >= d.lastUsed

\* C27: a successful Bearer verification leaves the token's lastUsed at the time
\* that request took, and no step ever moves a token's lastUsed to an earlier time.
C27_LastUsedMonotone == [][C27_Step]_vars

\* C28: every stored mnemonic that names a folder names one that exists and
\* belongs to the mnemonic's own user.
C28_FolderReferenceHolds ==
    \A m \in mnemonics :
        m.folderId /= 0 =>
            \E f \in folders : f._id = m.folderId /\ f.userId = m.userId

\* The records a response carries belong to the user it was authenticated as.
OwnData(user, data) ==
    \A d \in data :
        IF "userId" \in DOMAIN d THEN d.userId = user
        ELSE IF "id" \in DOMAIN d
        THEN \E t \in tokens' : t.userId = user /\ t._id = d.id /\ t.name = d.name
        ELSE \E m \in mnemonics' :
                m.userId = user /\ m.name = d.name /\ m.commands = d.commands

\* The records of a collection that a step removed or replaced.
Touched(before, after) == before \ after

C29_Step ==
    (last' /= last /\ last'.user /= "none") =>
        /\ OwnData(last'.user, last'.data)
        /\ \A d \in Touched(folders, folders') \cup Touched(mnemonics, mnemonics')
                      \cup Touched(tokens, tokens') : d.userId = last'.user
        /\ \A d \in Touched(folders', folders) \cup Touched(mnemonics', mnemonics)
                      \cup Touched(tokens', tokens) : d.userId = last'.user

C30_Step ==
    \A r \in reqs \ reqs' :
        /\ r.op = "POST /api/mnemonics" => last'.error /= "Validation failed"
        /\ (r.op = "PUT /api/mnemonics/{id}" /\ last'.status = 200)
              => MnemonicSchemaValid(r.name, r.commands)

\* C30: commands that passed validateMnemonicCommands are never refused by the
\* schema when POST /api/mnemonics saves them, and what PUT /api/mnemonics/{id}
\* stores is something the schema behind POST accepts too.
C30_ValidatorAndSchemaAgree == [][C30_Step]_vars

Next ==
    \/ Tick
    \/ \E u \in AllUsers : UserRemoved(u)
    \/ \E h \in Headers, dbUp \in BOOLEAN : GetMe(h, dbUp)

Spec == Init /\ [][Next]_vars
====
